---- MODULE Spec2Model ----
(***************************************************************************)
(* Model of the ApplyStage job-tracker backend (src/backend/server.py):    *)
(* the dashboard handlers (ai-insights, upcoming-interviews, stats), the   *)
(* email summaries and the report generator over the job documents of one  *)
(* user, the stored reports of several users, and the sessions that        *)
(* get_current_user accepts.                                               *)
(*                                                                         *)
(* Datetimes are integers counted in ticks, TicksPerDay ticks to a day;    *)
(* the day of a datetime is its proleptic Gregorian ordinal, as Python's   *)
(* date.toordinal().  Strings that the code parses are sequences of        *)
(* one-character strings.                                                  *)
(***************************************************************************)
EXTENDS Integers, Sequences, FiniteSets, TLC

VARIABLES jobs, now, response, reports, issued, sessions, requests,
          applications_count

vars == <<jobs, now, response, reports, issued, sessions, requests,
         applications_count>>

None == "None"

(***************************************************************************)
(* Bounds of the model.                                                    *)
(***************************************************************************)
TicksPerDay == 2
MaxJobs == 5
MaxSeeds == 2
MaxSchedLen == 5
MaxSpan == 8
MaxReportJobs == 3
MaxReports == 1
MaxStaleJobs == 3
MaxRateJobs == 10
MaxLocJobs == 3
MaxStatusJobs == 3
MaxStoredReports == 2
MaxPage == 2
MaxSessions == 1
MaxAuthDays == 8
MaxSummaryJobs == 2
MaxUpcomingJobs == 3
MaxFollowJobs == 3
MaxRequests == 3
MaxCoachJobs == 4
MaxMomentumJobs == 3
MaxStageJobs == 3
MaxOrderJobs == 5

(***************************************************************************)
(* Date arithmetic of the datetime module, as the handlers use it.         *)
(***************************************************************************)
IsLeap(y) == (y % 4 = 0) /\ ((y % 100 # 0) \/ (y % 400 = 0))

DaysInMonth(y, m) ==
    IF m = 2 THEN (IF IsLeap(y) THEN 29 ELSE 28)
    ELSE IF m \in {4, 6, 9, 11} THEN 30 ELSE 31

ValidDate(y, m, d) ==
    /\ y >= 1 /\ y <= 9999
    /\ m >= 1 /\ m <= 12
    /\ d >= 1 /\ d <= DaysInMonth(y, m)

RECURSIVE DaysBeforeMonth(_, _)
DaysBeforeMonth(y, m) ==
    IF m <= 1 THEN 0 ELSE DaysBeforeMonth(y, m - 1) + DaysInMonth(y, m - 1)

DaysBeforeYear(y) ==
    (y - 1) * 365 + ((y - 1) \div 4) - ((y - 1) \div 100) + ((y - 1) \div 400)

\* date(y, m, d).toordinal()
ToOrdinal(y, m, d) == DaysBeforeYear(y) + DaysBeforeMonth(y, m) + d

\* date.weekday(): Monday is 0
Weekday(ord) == (ord + 6) % 7

\* datetime.date() of a datetime in ticks
DateOf(t) == t \div TicksPerDay

\* (a - b).days of two datetimes: whole days, rounded down
DaysBetween(a, b) == (a - b) \div TicksPerDay

\* a datetime on day ord, tick k of the day
At(ord, k) == ord * TicksPerDay + k

(***************************************************************************)
(* Sequences.                                                              *)
(***************************************************************************)
Range(s) == {s[i] : i \in 1..Len(s)}

Take(s, n) == SubSeq(s, 1, IF Len(s) < n THEN Len(s) ELSE n)

RECURSIVE SumSeq(_)
SumSeq(s) == IF s = <<>> THEN 0 ELSE Head(s) + SumSeq(Tail(s))

\* lexicographic order of two integer keys of the same length
RECURSIVE KeyLess(_, _)
KeyLess(a, b) ==
    IF a = <<>> \/ b = <<>> THEN FALSE
    ELSE IF Head(a) # Head(b) THEN Head(a) < Head(b)
    ELSE KeyLess(Tail(a), Tail(b))

\* the indices 1..n in the order of a stable sort by the keys k: index n is
\* placed after the earlier indices whose key is not greater
RECURSIVE SortedIndices(_, _)
SortedIndices(k, n) ==
    IF n = 0 THEN <<>>
    ELSE LET prev == SortedIndices(k, n - 1)
             place == Cardinality({j \in 1..(n - 1) : ~ KeyLess(k[n], k[prev[j]])})
         IN SubSeq(prev, 1, place) \o <<n>> \o SubSeq(prev, place + 1, n - 1)

\* list.sort(key=...): the stable sort of s by the keys k (k[i] the key of s[i])
StableSort(s, k) ==
    LET order == SortedIndices(k, Len(s))
    IN [p \in 1..Len(s) |-> s[order[p]]]

\* A Python dict of counters is the sequence of its items [key, count] in
\* insertion order.
DictHas(d, key) == \E i \in 1..Len(d) : d[i].key = key

\* d.get(key, 0)
DictGet(d, key) ==
    IF DictHas(d, key) THEN d[CHOOSE i \in 1..Len(d) : d[i].key = key].count ELSE 0

\* d[key] = d.get(key, 0) + 1
DictInc(d, key) ==
    IF DictHas(d, key)
    THEN [i \in 1..Len(d) |-> IF d[i].key = key THEN [d[i] EXCEPT !.count = @ + 1] ELSE d[i]]
    ELSE Append(d, [key |-> key, count |-> 1])

(***************************************************************************)
(* The schedule string of a job: "MM/DD/YYYY", "MM-DD-YY", ...             *)
(***************************************************************************)
Digits == <<"0", "1", "2", "3", "4", "5", "6", "7", "8", "9">>

IsDigit(c) == \E i \in 1..10 : Digits[i] = c

DigitVal(c) == (CHOOSE i \in 1..10 : Digits[i] = c) - 1

\* schedule_str.replace('/', '-')
ReplaceSlash(s) == [i \in 1..Len(s) |-> IF s[i] = "/" THEN "-" ELSE s[i]]

\* str.split("-")
RECURSIVE SplitDash(_)
SplitDash(s) ==
    IF s = <<>> THEN << <<>> >>
    ELSE LET rest == SplitDash(Tail(s))
         IN IF Head(s) = "-" THEN << <<>> >> \o rest
            ELSE << <<Head(s)>> \o Head(rest) >> \o Tail(rest)

\* int(part), for a part made of the characters of the schedule alphabet
\* (digits and letters; the separators are gone after the split): it raises
\* ValueError unless the part is a non-empty run of digits
IntOk(part) == part # <<>> /\ \A i \in 1..Len(part) : IsDigit(part[i])

RECURSIVE IntOf(_)
IntOf(part) ==
    IF part = <<>> THEN 0
    ELSE IntOf(SubSeq(part, 1, Len(part) - 1)) * 10 + DigitVal(part[Len(part)])

\* the parse without the two-digit-year rule
ParseScheduleNoCentury(s) ==
    LET parts == SplitDash(ReplaceSlash(s))
    IN IF Len(parts) # 3 THEN [outcome |-> "skip", date |-> <<0, 0, 0>>]
       ELSE IF ~ (IntOk(parts[1]) /\ IntOk(parts[2]) /\ IntOk(parts[3]))
            THEN [outcome |-> "ValueError", date |-> <<0, 0, 0>>]
       ELSE IF ValidDate(IntOf(parts[3]), IntOf(parts[1]), IntOf(parts[2]))
            THEN [outcome |-> "date",
                  date |-> <<IntOf(parts[3]), IntOf(parts[1]), IntOf(parts[2])>>]
            ELSE [outcome |-> "ValueError", date |-> <<0, 0, 0>>]

NoDate == <<0, 0, 0>>

\* The body of the try block that both handlers share.  outcome is "skip"
\* when the string does not have three parts, "ValueError" (caught by the
\* handler) when a part is not a number or the date does not exist, and
\* "date" with date = <<year, month, day>> otherwise.
ParseSchedule(s) ==
    LET parts == SplitDash(ReplaceSlash(s))
    IN IF Len(parts) # 3 THEN [outcome |-> "skip", date |-> NoDate]
       ELSE IF ~ (IntOk(parts[1]) /\ IntOk(parts[2]) /\ IntOk(parts[3]))
            THEN [outcome |-> "ValueError", date |-> NoDate]
       ELSE LET month == IntOf(parts[1])
                day == IntOf(parts[2])
                y0 == IntOf(parts[3])
                year == IF y0 < 100 THEN y0 + 2000 ELSE y0
            IN IF ValidDate(year, month, day)
               THEN [outcome |-> "date", date |-> <<year, month, day>>]
               ELSE [outcome |-> "ValueError", date |-> NoDate]

DateOrdinal(d) == ToOrdinal(d[1], d[2], d[3])

(***************************************************************************)
(* Job documents.  A job is a record                                       *)
(*   [company_name, status, is_priority, upcoming_stage, upcoming_schedule,*)
(*    date_applied, created_at, follow_up_days, work_mode, position,       *)
(*    location].                                                           *)
(* upcoming_stage is None, "" or a stage name; upcoming_schedule is a      *)
(* string (the empty one also stands for null, which the code treats the   *)
(* same way); follow_up_days is <<>> for null and <<n>> for n.  A stored   *)
(* date is [kind, t]: kind "none" (null), "datetime" (a datetime object),  *)
(* "iso" (an ISO string with a UTC offset), "iso_naive" (an ISO string     *)
(* without offset) or "bad" (a string that is no ISO date); update_job     *)
(* stores whatever string it is given.                                     *)
(***************************************************************************)
NoStored == [kind |-> "none", t |-> 0]
BadDateString == [kind |-> "bad", t |-> 0]
Stored(kind, t) == [kind |-> kind, t |-> t]

IsStr(d) == d.kind \in {"iso", "iso_naive", "bad"}

\* truth value of a stored date in "if date_applied:"
Present(d) == d.kind # "none"

\* datetime.fromisoformat(s.replace('Z', '+00:00')) raises ValueError on a
\* string that is no ISO date
IsoRaises(d) == d.kind = "bad"

Truthy(str) == str # None /\ str # ""

all_stages ==
    << "applied", "recruiter_screening", "phone_screen", "coding_round_1",
       "coding_round_2", "system_design", "behavioural", "hiring_manager",
       "final_round", "offer", "rejected", "ghosted" >>

\* stage_order.get(status, 0)
stage_order(status) ==
    IF \E i \in 1..Len(all_stages) : all_stages[i] = status
    THEN (CHOOSE i \in 1..Len(all_stages) : all_stages[i] = status) - 1
    ELSE 0

\* the keys of stage_coaching
stage_coaching ==
    { "recruiter_screening", "phone_screen", "coding_round_1", "coding_round_2",
      "system_design", "behavioural", "hiring_manager", "final_round" }

\* stage_coaching.get(upcoming_stage, {}).get('checklist', []): the number of
\* checklist lines
ChecklistLen(stage) == IF stage \in stage_coaching THEN 5 ELSE 0

(***************************************************************************)
(* GET /dashboard/upcoming-interviews                                      *)
(***************************************************************************)
\* The find() filter.  Each filter dict is written with the key "$ne" twice,
\* so only {"$exists": True, "$ne": ""} reaches the database: a null field
\* matches.  The empty schedule stands for both "" and null; null passes the
\* filter and is then dropped by "if schedule_str:".
UpcomingFilter(job) == job.upcoming_stage # ""

RECURSIVE UpcomingLoop(_, _)
UpcomingLoop(js, today) ==
    IF js = <<>> THEN <<>>
    ELSE LET job == Head(js)
             rest == UpcomingLoop(Tail(js), today)
             p == ParseSchedule(job.upcoming_schedule)
         IN IF job.upcoming_schedule = <<>> THEN rest
            ELSE IF p.outcome # "date" THEN rest
            ELSE IF DateOrdinal(p.date) >= today
                 THEN << [company_name |-> job.company_name,
                          stage |-> job.upcoming_stage,
                          status |-> job.status,
                          schedule_date |-> p.date,
                          schedule_raw |-> job.upcoming_schedule,
                          days_until |-> DateOrdinal(p.date) - today] >> \o rest
                 ELSE rest

get_upcoming_interviews(js, nowT) ==
    LET found == SelectSeq(js, UpcomingFilter)
        upcoming == UpcomingLoop(Take(found, 100), DateOf(nowT))
    IN [handler |-> "get_upcoming_interviews",
        code |-> 200,
        body |-> StableSort(upcoming,
                            [i \in 1..Len(upcoming) |-> <<upcoming[i].days_until>>])]

(***************************************************************************)
(* GET /dashboard/ai-insights: the pass over the jobs.                     *)
(***************************************************************************)
\* the count with the end day included: range(days_old + 1)
BizDaysInclusive(t, days_old) ==
    Cardinality({i \in 0..days_old : Weekday(DateOf(t) + i) < 5})

\* sum(1 for i in range(days_old) if (date_applied + timedelta(days=i)).weekday() < 5)
BizDays(t, days_old) ==
    Cardinality({i \in 0..(days_old - 1) : Weekday(DateOf(t) + i) < 5})

\* the side tables kept at module level: the interviews found by the
\* previous request are still in the list
InitTablesCarried ==
    [stage_counts |-> [i \in 1..Len(all_stages) |-> 0],
     company_data |-> <<>>,
     stage_success_count |-> <<>>,
     upcoming_interviews |-> IF response.handler = "get_ai_insights"
                             THEN response.body.upcoming_interviews ELSE <<>>,
     weekly_activity |-> [applied |-> 0, advanced |-> 0, interviews |-> 0],
     offer_companies |-> <<>>,
     ghosted_jobs |-> <<>>,
     rejected_jobs |-> <<>>,
     follow_ups_needed |-> <<>>,
     raised |-> FALSE]

\* the side tables before the first job
InitTables ==
    [stage_counts |-> [i \in 1..Len(all_stages) |-> 0],
     company_data |-> <<>>,
     stage_success_count |-> <<>>,
     upcoming_interviews |-> <<>>,
     weekly_activity |-> [applied |-> 0, advanced |-> 0, interviews |-> 0],
     offer_companies |-> <<>>,
     ghosted_jobs |-> <<>>,
     rejected_jobs |-> <<>>,
     follow_ups_needed |-> <<>>,
     raised |-> FALSE]

\* for s in list(stage_order.keys())[:stage_idx]:
\*     stage_success_count[s] = stage_success_count.get(s, 0) + 1
\* The dict is the sequence of its items in insertion order.
RECURSIVE CreditStages(_, _, _)
CreditStages(ssc, k, stage_idx) ==
    IF k > stage_idx THEN ssc
    ELSE CreditStages(DictInc(ssc, all_stages[k]), k + 1, stage_idx)

\* company_data after one job of the company: the row is created by the
\* first job, every job adds its position, raises the row's stage and, when
\* the job is a priority with a coached stage, adds that stage's tip.
CompanyStep(cd, job, biz_days, stage_idx) ==
    LET company == job.company_name
        known == \E i \in 1..Len(cd) : cd[i].company = company
        cd1 == IF known THEN cd
               ELSE Append(cd, [company |-> company,
                                positions |-> 0,
                                status |-> job.status,
                                is_priority |-> job.is_priority,
                                coaching_tips |-> <<>>,
                                upcoming_stage |-> job.upcoming_stage,
                                upcoming_schedule |-> job.upcoming_schedule,
                                biz_days |-> biz_days,
                                stage_idx |-> stage_idx])
        coaching_stage == IF Truthy(job.upcoming_stage) THEN job.upcoming_stage
                          ELSE job.status
        row(r) ==
            LET r1 == [r EXCEPT !.positions = @ + 1]
                r2 == IF stage_order(job.status) > r1.stage_idx
                      THEN [r1 EXCEPT !.status = job.status,
                                      !.stage_idx = stage_order(job.status)]
                      ELSE r1
            IN IF coaching_stage \in stage_coaching /\ job.is_priority
               THEN [r2 EXCEPT !.coaching_tips = Append(@, coaching_stage)]
               ELSE r2
    IN [i \in 1..Len(cd1) |-> IF cd1[i].company = company THEN row(cd1[i]) ELSE cd1[i]]

\* the "Track upcoming interviews" block: the tables with the interview added
InterviewStep(tb, job, today) ==
    LET p == ParseSchedule(job.upcoming_schedule)
    IN IF ~ (Truthy(job.upcoming_stage) /\ job.upcoming_schedule # <<>>) THEN tb
       ELSE IF p.outcome # "date" THEN tb
       ELSE IF DateOrdinal(p.date) >= today
            THEN LET days_until == DateOrdinal(p.date) - today
                 IN [tb EXCEPT
                       !.weekly_activity.interviews =
                           @ + (IF days_until <= 7 THEN 1 ELSE 0),
                       !.upcoming_interviews =
                           Append(@, [company |-> job.company_name,
                                      stage |-> job.upcoming_stage,
                                      days_until |-> days_until,
                                      is_priority |-> job.is_priority,
                                      checklist |-> ChecklistLen(job.upcoming_stage)])]
            ELSE tb

\* the "Follow-up tracking" block
FollowUpStep(tb, job, days_old, biz_days) ==
    LET fud == job.follow_up_days
    IN IF fud # <<>> /\ fud[1] # 0
          /\ job.status \notin {"offer", "rejected", "ghosted"}
          /\ days_old >= fud[1]
       THEN [tb EXCEPT !.follow_ups_needed =
               Append(@, [company |-> job.company_name,
                          status |-> job.status,
                          overdue_days |-> days_old - fud[1],
                          biz_days |-> biz_days,
                          is_priority |-> job.is_priority,
                          urgency |-> IF job.is_priority THEN "critical"
                                      ELSE IF job.status \in {"applied", "recruiter_screening"}
                                           THEN "high" ELSE "medium"])]
       ELSE tb

\* one iteration of "for job in jobs:"
ProcessJob(tb, job, nowT) ==
    LET status == job.status
        today == DateOf(nowT)
        week_start == today - Weekday(today)
        counted == IF \E i \in 1..Len(all_stages) : all_stages[i] = status
                   THEN [tb EXCEPT !.stage_counts[stage_order(status) + 1] = @ + 1]
                   ELSE tb
        date_applied == IF Present(job.date_applied) THEN job.date_applied
                        ELSE job.created_at
        has_date == Present(date_applied)
        days_old == IF has_date THEN DaysBetween(nowT, date_applied.t) ELSE 0
        biz_days == IF has_date THEN BizDays(date_applied.t, days_old) ELSE 0
        dated == IF has_date /\ DateOf(date_applied.t) >= week_start
                 THEN [counted EXCEPT !.weekly_activity.applied = @ + 1]
                 ELSE counted
        stage_idx == stage_order(status)
        credited == IF stage_idx >= 3
                    THEN [dated EXCEPT !.stage_success_count =
                                          CreditStages(@, 1, stage_idx)]
                    ELSE dated
        grouped == [credited EXCEPT !.company_data =
                                       CompanyStep(@, job, biz_days, stage_idx)]
        scheduled == InterviewStep(grouped, job, today)
        advanced == IF stage_idx >= 2
                    THEN [scheduled EXCEPT !.weekly_activity.advanced = @ + 1]
                    ELSE scheduled
    IN IF has_date /\ IsStr(date_applied) /\ IsoRaises(date_applied)
       THEN [counted EXCEPT !.raised = TRUE]
       ELSE IF status = "ghosted"
            THEN [dated EXCEPT !.ghosted_jobs = Append(@, job.company_name)]
       ELSE IF status = "offer"
            THEN [dated EXCEPT !.offer_companies = Append(@, days_old)]
       ELSE IF status = "rejected" /\ days_old <= 14
            THEN [dated EXCEPT !.rejected_jobs = Append(@, job.company_name)]
       ELSE FollowUpStep(advanced, job, days_old, biz_days)

RECURSIVE ProcessJobs(_, _, _)
ProcessJobs(tb, js, nowT) ==
    IF js = <<>> \/ tb.raised THEN tb
    ELSE ProcessJobs(ProcessJob(tb, Head(js), nowT), Tail(js), nowT)

(***************************************************************************)
(* GET /dashboard/ai-insights: the rules, the follow-ups and the response. *)
(* An insight is [type, priority, n, m, names, choice]: the numbers and    *)
(* names that its text is built from, and the index of the text chosen by  *)
(* random.choice.                                                          *)
(***************************************************************************)
Insight(type, priority, n, m, names, choice) ==
    [type |-> type, priority |-> priority, n |-> n, m |-> m,
     names |-> names, choice |-> choice]

\* f"{x:.0f}" of x = num / den, den > 0: the nearest integer, ties to even
RoundDiv(num, den) ==
    LET q == num \div den
        r == num - q * den
    IN IF 2 * r < den THEN q
       ELSE IF 2 * r > den THEN q + 1
       ELSE IF q % 2 = 0 THEN q ELSE q + 1

\* str.replace('_', ' ').title() on the stage names
StatusLabel(status) ==
    CASE status = "applied" -> "Applied"
      [] status = "recruiter_screening" -> "Recruiter Screening"
      [] status = "phone_screen" -> "Phone Screen"
      [] status = "coding_round_1" -> "Coding Round 1"
      [] status = "coding_round_2" -> "Coding Round 2"
      [] status = "system_design" -> "System Design"
      [] status = "behavioural" -> "Behavioural"
      [] status = "hiring_manager" -> "Hiring Manager"
      [] status = "final_round" -> "Final Round"
      [] status = "offer" -> "Offer"
      [] status = "rejected" -> "Rejected"
      [] status = "ghosted" -> "Ghosted"
      [] OTHER -> "Other"

\* the last item of the largest count
BestStageLast(ssc) ==
    ssc[CHOOSE i \in 1..Len(ssc) :
          /\ \A j \in 1..Len(ssc) : ssc[j].count <= ssc[i].count
          /\ \A j \in (i + 1)..Len(ssc) : ssc[j].count < ssc[i].count]

\* max(stage_success_count.items(), key=lambda x: x[1]): the first item of
\* the largest count
BestStage(ssc) ==
    ssc[CHOOSE i \in 1..Len(ssc) :
          /\ \A j \in 1..Len(ssc) : ssc[j].count <= ssc[i].count
          /\ \A j \in 1..(i - 1) : ssc[j].count < ssc[i].count]

UrgentRule(tb) ==
    LET todays == SelectSeq(tb.upcoming_interviews, LAMBDA i : i.days_until = 0)
    IN IF todays # <<>>
       THEN << Insight("urgent", 0, Len(todays), 0,
                       [k \in 1..Len(Take(todays, 2)) |-> todays[k].company], 0) >>
       ELSE <<>>

OfferRule(tb) ==
    IF tb.offer_companies # <<>>
    THEN << Insight("celebration", 1, Len(tb.offer_companies),
                    RoundDiv(SumSeq(tb.offer_companies), Len(tb.offer_companies)),
                    <<>>, 0) >>
    ELSE <<>>

PatternRule(tb) ==
    IF tb.stage_success_count # <<>> /\ BestStage(tb.stage_success_count).count >= 2
    THEN << Insight("pattern", 2, BestStage(tb.stage_success_count).count, 0,
                    << StatusLabel(BestStage(tb.stage_success_count).key) >>, 0) >>
    ELSE <<>>

MomentumRule(tb) ==
    IF tb.weekly_activity.applied > 0 \/ tb.weekly_activity.interviews > 0
    THEN << Insight("momentum", 3, tb.weekly_activity.applied,
                    tb.weekly_activity.interviews, <<>>, 0) >>
    ELSE <<>>

CoachingRule(tb) ==
    LET cands == SelectSeq(tb.company_data,
                           LAMBDA c : c.is_priority /\ c.coaching_tips # <<>>)
        priority_companies ==
            Take(StableSort(cands, [i \in 1..Len(cands) |-> << -cands[i].stage_idx >>]), 3)
    IN [k \in 1..Len(priority_companies) |->
          Insight("coaching", 4, 0, 0,
                  << priority_companies[k].company, priority_companies[k].status >>
                      \o Take(priority_companies[k].coaching_tips, 2),
                  0)]

ReflectionRule(total, r1) ==
    IF total >= 3 THEN << Insight("reflection", 5, 0, 0, <<>>, r1) >> ELSE <<>>

EncouragementRule(tb, r2) ==
    IF tb.rejected_jobs # <<>> /\ Len(tb.rejected_jobs) <= 3
    THEN << Insight("encouragement", 6,
                    IF r2 = 1 THEN Len(tb.rejected_jobs) ELSE 0, 0, <<>>, r2) >>
    ELSE <<>>

GhostedRule(tb) ==
    IF tb.ghosted_jobs # <<>>
    THEN << Insight("ghosted", 7, Len(tb.ghosted_jobs), 0, <<>>, 0) >>
    ELSE <<>>

\* strategic_insights as appended by the eight rule blocks
RuleInsights(tb, total, r1, r2) ==
    UrgentRule(tb) \o OfferRule(tb) \o PatternRule(tb) \o MomentumRule(tb)
    \o CoachingRule(tb) \o ReflectionRule(total, r1) \o EncouragementRule(tb, r2)
    \o GhostedRule(tb)

\* the list sorted the other way round (reverse=True)
SortInsightsDescending(ins) ==
    StableSort(ins, [i \in 1..Len(ins) |-> << -ins[i].priority >>])

\* strategic_insights.sort(key=lambda x: x.get('priority', 99))
SortInsights(ins) == StableSort(ins, [i \in 1..Len(ins) |-> << ins[i].priority >>])

\* the list without the cut
LimitInsightsUncut(ins) == ins

\* strategic_insights[:8]
LimitInsights(ins) == Take(ins, 8)

\* insight.pop('priority', None)
StripPriority(ins) ==
    [i \in 1..Len(ins) |->
        [type |-> ins[i].type, n |-> ins[i].n, m |-> ins[i].m,
         names |-> ins[i].names, choice |-> ins[i].choice]]

DefaultInsight ==
    [type |-> "info", n |-> 0, m |-> 0, names |-> <<>>, choice |-> 0]

\* "if not strategic_insights:" after the sort
InsightsOrDefault(ins) == IF ins = <<>> THEN << DefaultInsight >> ELSE ins

UrgencyRank(u) == IF u = "critical" THEN 0 ELSE IF u = "high" THEN 1 ELSE 2

\* the follow-ups left in the order of the jobs
SortFollowUpsUnsorted(fus) == fus

\* follow_ups_needed.sort(key=lambda x: (rank of urgency, -x['overdue_days']))
SortFollowUps(fus) ==
    StableSort(fus, [i \in 1..Len(fus) |->
                        << UrgencyRank(fus[i].urgency), -fus[i].overdue_days >>])

\* follow_ups_needed[:4]
LimitFollowUps(fus) == Take(fus, 4)

action_hint(status) ==
    IF status = "applied" THEN "Send a brief check-in email"
    ELSE IF status = "recruiter_screening" THEN "Follow up on next steps"
    ELSE IF status = "phone_screen" THEN "Ask for feedback or timeline"
    ELSE "Request status update"

\* the reminders of the follow-ups kept after the cut
Reminders(fus) ==
    [i \in 1..Len(fus) |->
        [summary |-> FALSE,
         company |-> fus[i].company,
         overdue_days |-> fus[i].overdue_days,
         status |-> StatusLabel(fus[i].status),
         biz_days |-> fus[i].biz_days,
         is_priority |-> fus[i].is_priority,
         urgency |-> fus[i].urgency,
         action_hint |-> action_hint(fus[i].status)]]

SummaryReminder ==
    [summary |-> TRUE, company |-> "", overdue_days |-> 0, status |-> "",
     biz_days |-> 0, is_priority |-> FALSE, urgency |-> "", action_hint |-> ""]

\* "if not follow_up_reminders:"
RemindersOrDefault(rs) == IF rs = <<>> THEN << SummaryReminder >> ELSE rs

NoInsightsBody == [insights |-> <<>>, follow_ups |-> <<>>, upcoming_interviews |-> <<>>]

\* The handler.  r1 and r2 are the results of the two random.choice calls.
\* An exception that leaves the handler is answered with 500 and no body.
get_ai_insights(js, nowT, r1, r2) ==
    LET fetched == Take(js, 1000)
        tb == ProcessJobs(InitTables, fetched, nowT)
        total == Len(fetched)
    IN IF tb.raised
       THEN [handler |-> "get_ai_insights", code |-> 500, body |-> NoInsightsBody]
       ELSE [handler |-> "get_ai_insights", code |-> 200,
             body |-> [insights |->
                          InsightsOrDefault(StripPriority(LimitInsights(
                              SortInsights(RuleInsights(tb, total, r1, r2))))),
                       follow_ups |->
                          RemindersOrDefault(Reminders(LimitFollowUps(
                              SortFollowUps(tb.follow_ups_needed)))),
                       upcoming_interviews |-> Take(tb.upcoming_interviews, 5)]]

(***************************************************************************)
(* GET /dashboard/stats                                                    *)
(***************************************************************************)
\* the stage counters that the stats dict is created with
StatStages ==
    { "applied", "recruiter_screening", "phone_screen", "coding_round_1",
      "coding_round_2", "system_design", "behavioural", "hiring_manager",
      "final_round", "offer", "rejected" }

\* the keys of the stats dict whose values are dicts
StatDicts == { "by_location", "by_work_mode", "by_position" }

WorkModes == { "remote", "onsite", "hybrid" }

\* str.lower() on the spellings of a work mode
Lower(mode) ==
    IF mode \in {"Remote", "REMOTE"} THEN "remote"
    ELSE IF mode \in {"Onsite", "ONSITE"} THEN "onsite"
    ELSE IF mode \in {"Hybrid", "HYBRID"} THEN "hybrid"
    ELSE mode

LowerCase == <<"a", "b", "c", "d", "e", "f", "g", "h", "i", "j", "k", "l", "m", "n", "o", "p", "q", "r", "s", "t", "u", "v", "w", "x", "y", "z">>

UpperCase == <<"A", "B", "C", "D", "E", "F", "G", "H", "I", "J", "K", "L", "M", "N", "O", "P", "Q", "R", "S", "T", "U", "V", "W", "X", "Y", "Z">>

\* str.upper() on one character: only the lower-case letters change
UpperChar(c) ==
    IF \E i \in 1..Len(LowerCase) : LowerCase[i] = c
    THEN UpperCase[CHOOSE i \in 1..Len(LowerCase) : LowerCase[i] = c]
    ELSE c

\* str.upper()
Upper(str) == [i \in 1..Len(str) |-> UpperChar(str[i])]

\* the state abbreviation mapping, in the order it is written
state_abbr ==
    << [name |-> <<"A", "l", "a", "b", "a", "m", "a">>, abbr |-> <<"A", "L">>],
       [name |-> <<"A", "l", "a", "s", "k", "a">>, abbr |-> <<"A", "K">>],
       [name |-> <<"A", "r", "i", "z", "o", "n", "a">>, abbr |-> <<"A", "Z">>],
       [name |-> <<"A", "r", "k", "a", "n", "s", "a", "s">>, abbr |-> <<"A", "R">>],
       [name |-> <<"C", "a", "l", "i", "f", "o", "r", "n", "i", "a">>, abbr |-> <<"C", "A">>],
       [name |-> <<"C", "o", "l", "o", "r", "a", "d", "o">>, abbr |-> <<"C", "O">>],
       [name |-> <<"C", "o", "n", "n", "e", "c", "t", "i", "c", "u", "t">>, abbr |-> <<"C", "T">>],
       [name |-> <<"D", "e", "l", "a", "w", "a", "r", "e">>, abbr |-> <<"D", "E">>],
       [name |-> <<"F", "l", "o", "r", "i", "d", "a">>, abbr |-> <<"F", "L">>],
       [name |-> <<"G", "e", "o", "r", "g", "i", "a">>, abbr |-> <<"G", "A">>],
       [name |-> <<"H", "a", "w", "a", "i", "i">>, abbr |-> <<"H", "I">>],
       [name |-> <<"I", "d", "a", "h", "o">>, abbr |-> <<"I", "D">>],
       [name |-> <<"I", "l", "l", "i", "n", "o", "i", "s">>, abbr |-> <<"I", "L">>],
       [name |-> <<"I", "n", "d", "i", "a", "n", "a">>, abbr |-> <<"I", "N">>],
       [name |-> <<"I", "o", "w", "a">>, abbr |-> <<"I", "A">>],
       [name |-> <<"K", "a", "n", "s", "a", "s">>, abbr |-> <<"K", "S">>],
       [name |-> <<"K", "e", "n", "t", "u", "c", "k", "y">>, abbr |-> <<"K", "Y">>],
       [name |-> <<"L", "o", "u", "i", "s", "i", "a", "n", "a">>, abbr |-> <<"L", "A">>],
       [name |-> <<"M", "a", "i", "n", "e">>, abbr |-> <<"M", "E">>],
       [name |-> <<"M", "a", "r", "y", "l", "a", "n", "d">>, abbr |-> <<"M", "D">>],
       [name |-> <<"M", "a", "s", "s", "a", "c", "h", "u", "s", "e", "t", "t", "s">>, abbr |-> <<"M", "A">>],
       [name |-> <<"M", "i", "c", "h", "i", "g", "a", "n">>, abbr |-> <<"M", "I">>],
       [name |-> <<"M", "i", "n", "n", "e", "s", "o", "t", "a">>, abbr |-> <<"M", "N">>],
       [name |-> <<"M", "i", "s", "s", "i", "s", "s", "i", "p", "p", "i">>, abbr |-> <<"M", "S">>],
       [name |-> <<"M", "i", "s", "s", "o", "u", "r", "i">>, abbr |-> <<"M", "O">>],
       [name |-> <<"M", "o", "n", "t", "a", "n", "a">>, abbr |-> <<"M", "T">>],
       [name |-> <<"N", "e", "b", "r", "a", "s", "k", "a">>, abbr |-> <<"N", "E">>],
       [name |-> <<"N", "e", "v", "a", "d", "a">>, abbr |-> <<"N", "V">>],
       [name |-> <<"N", "e", "w", " ", "H", "a", "m", "p", "s", "h", "i", "r", "e">>, abbr |-> <<"N", "H">>],
       [name |-> <<"N", "e", "w", " ", "J", "e", "r", "s", "e", "y">>, abbr |-> <<"N", "J">>],
       [name |-> <<"N", "e", "w", " ", "M", "e", "x", "i", "c", "o">>, abbr |-> <<"N", "M">>],
       [name |-> <<"N", "e", "w", " ", "Y", "o", "r", "k">>, abbr |-> <<"N", "Y">>],
       [name |-> <<"N", "o", "r", "t", "h", " ", "C", "a", "r", "o", "l", "i", "n", "a">>, abbr |-> <<"N", "C">>],
       [name |-> <<"N", "o", "r", "t", "h", " ", "D", "a", "k", "o", "t", "a">>, abbr |-> <<"N", "D">>],
       [name |-> <<"O", "h", "i", "o">>, abbr |-> <<"O", "H">>],
       [name |-> <<"O", "k", "l", "a", "h", "o", "m", "a">>, abbr |-> <<"O", "K">>],
       [name |-> <<"O", "r", "e", "g", "o", "n">>, abbr |-> <<"O", "R">>],
       [name |-> <<"P", "e", "n", "n", "s", "y", "l", "v", "a", "n", "i", "a">>, abbr |-> <<"P", "A">>],
       [name |-> <<"R", "h", "o", "d", "e", " ", "I", "s", "l", "a", "n", "d">>, abbr |-> <<"R", "I">>],
       [name |-> <<"S", "o", "u", "t", "h", " ", "C", "a", "r", "o", "l", "i", "n", "a">>, abbr |-> <<"S", "C">>],
       [name |-> <<"S", "o", "u", "t", "h", " ", "D", "a", "k", "o", "t", "a">>, abbr |-> <<"S", "D">>],
       [name |-> <<"T", "e", "n", "n", "e", "s", "s", "e", "e">>, abbr |-> <<"T", "N">>],
       [name |-> <<"T", "e", "x", "a", "s">>, abbr |-> <<"T", "X">>],
       [name |-> <<"U", "t", "a", "h">>, abbr |-> <<"U", "T">>],
       [name |-> <<"V", "e", "r", "m", "o", "n", "t">>, abbr |-> <<"V", "T">>],
       [name |-> <<"V", "i", "r", "g", "i", "n", "i", "a">>, abbr |-> <<"V", "A">>],
       [name |-> <<"W", "a", "s", "h", "i", "n", "g", "t", "o", "n">>, abbr |-> <<"W", "A">>],
       [name |-> <<"W", "e", "s", "t", " ", "V", "i", "r", "g", "i", "n", "i", "a">>, abbr |-> <<"W", "V">>],
       [name |-> <<"W", "i", "s", "c", "o", "n", "s", "i", "n">>, abbr |-> <<"W", "I">>],
       [name |-> <<"W", "y", "o", "m", "i", "n", "g">>, abbr |-> <<"W", "Y">>] >>

Unknown == <<"U", "n", "k", "n", "o", "w", "n">>

\* the abbreviation that skips the mapping
StateShortNoMapping(state) ==
    IF Len(state) >= 2 THEN Upper(Take(state, 2)) ELSE state

\* state_abbr.get(state, state[:2].upper() if len(state) >= 2 else state)
StateShort(state) ==
    IF \E i \in 1..Len(state_abbr) : state_abbr[i].name = state
    THEN state_abbr[CHOOSE i \in 1..Len(state_abbr) : state_abbr[i].name = state].abbr
    ELSE IF Len(state) >= 2 THEN Upper(Take(state, 2)) ELSE state

\* location.get(key, "Unknown"): a field of the location is <<>> when the
\* key is missing and <<value>> when it is there
GetOrUnknown(field) == IF field = <<>> THEN Unknown ELSE field[1]

\* f"{city}, {state_short}"
LocKey(location) ==
    GetOrUnknown(location.city) \o <<",", " ">> \o StateShort(GetOrUnknown(location.state))

InitStats ==
    [total |-> 0,
     stage |-> [st \in StatStages |-> 0],
     by_location |-> <<>>,
     by_work_mode |-> [m \in WorkModes |-> 0],
     by_position |-> <<>>,
     last_10_days |-> 0,
     raised |-> FALSE]

\* one iteration of "for job in jobs:"; "status in stats" also holds for the
\* key "total" and for the three dict-valued keys, where += 1 is a TypeError
StatsJob(stats, job, nowT) ==
    LET status == job.status
        ten_days_ago == nowT - 10 * TicksPerDay
        s1 == IF status \in StatStages THEN [stats EXCEPT !.stage[status] = @ + 1]
              ELSE IF status = "total" THEN [stats EXCEPT !.total = @ + 1]
              ELSE stats
        sp == IF job.position # "" THEN [s1 EXCEPT !.by_position = DictInc(@, job.position)]
              ELSE s1
        sl == [sp EXCEPT !.by_location = DictInc(@, LocKey(job.location))]
        work_mode == Lower(job.work_mode)
        s2 == IF work_mode \in WorkModes THEN [sl EXCEPT !.by_work_mode[work_mode] = @ + 1]
              ELSE sl
        created_at == job.created_at
    IN IF status \in StatDicts THEN [stats EXCEPT !.raised = TRUE]
       ELSE IF ~ Present(created_at) THEN s2
       ELSE IF IsStr(created_at) /\ IsoRaises(created_at) THEN [s2 EXCEPT !.raised = TRUE]
       ELSE IF created_at.t >= ten_days_ago THEN [s2 EXCEPT !.last_10_days = @ + 1]
       ELSE s2

RECURSIVE StatsLoop(_, _, _)
StatsLoop(stats, js, nowT) ==
    IF js = <<>> \/ stats.raised THEN stats
    ELSE StatsLoop(StatsJob(stats, Head(js), nowT), Tail(js), nowT)

get_dashboard_stats(js, nowT) ==
    LET fetched == Take(js, 1000)
        stats == StatsLoop([InitStats EXCEPT !.total = Len(fetched)], fetched, nowT)
    IN IF stats.raised
       THEN [handler |-> "get_dashboard_stats", code |-> 500, body |-> InitStats]
       ELSE [handler |-> "get_dashboard_stats", code |-> 200, body |-> stats]

(***************************************************************************)
(* GET /email-summary/weekly and /email-summary/monthly                    *)
(***************************************************************************)
\* What the summaries make of a stored date_applied before they compare it:
\* "ValueError" when fromisoformat rejects the string, "naive" when the
\* string carries no offset (only datetime objects are given UTC), which
\* makes the comparison with the aware "today" a TypeError, else "aware".
SummaryDate(d) ==
    IF d.kind = "bad" THEN "ValueError"
    ELSE IF d.kind = "iso_naive" THEN "naive"
    ELSE "aware"

SummaryRaises(job) ==
    Present(job.date_applied) /\ SummaryDate(job.date_applied) # "aware"

\* the follow-up reminders of both summaries: status applied, more than 7
\* whole days old
SummaryFollowUp(job, today) ==
    /\ job.status = "applied"
    /\ Present(job.date_applied)
    /\ DaysBetween(today, job.date_applied.t) > 7

RECURSIVE CountBy(_, _)
\* the dict of counts of the keys, in order of first appearance
CountBy(keys, d) ==
    IF keys = <<>> THEN d ELSE CountBy(Tail(keys), DictInc(d, Head(keys)))

StatusCounts(js) == CountBy([i \in 1..Len(js) |-> js[i].status], <<>>)

WorkModeCounts(js) == CountBy([i \in 1..Len(js) |-> js[i].work_mode], <<>>)

\* round(x, 1) of x = 100 * num / den, den > 0, in tenths
RoundTenths(num, den) == RoundDiv(1000 * num, den)

\* the rate of the applications still in status applied
ResponseRateOfApplied(js) ==
    LET waiting == Len(SelectSeq(js, LAMBDA j : j.status = "applied"))
    IN IF Len(js) # 0 THEN RoundTenths(waiting, Len(js)) ELSE 0

\* round(responded / total * 100, 1) if total else 0, in tenths of a percent
ResponseRate(js) ==
    LET responded == Len(SelectSeq(js, LAMBDA j : j.status # "applied"))
    IN IF Len(js) # 0 THEN RoundTenths(responded, Len(js)) ELSE 0

get_weekly_email_summary(js, nowT) ==
    LET today == nowT
        week_start == today - 7 * TicksPerDay
        all_jobs == Take(js, 1000)
        weekly_jobs == SelectSeq(all_jobs, LAMBDA j :
                          /\ Present(j.date_applied)
                          /\ week_start <= j.date_applied.t
                          /\ j.date_applied.t <= today)
        follow_ups == SelectSeq(all_jobs, LAMBDA j : SummaryFollowUp(j, today))
    IN IF \E i \in 1..Len(all_jobs) : SummaryRaises(all_jobs[i])
       THEN [handler |-> "get_weekly_email_summary", code |-> 500, body |-> <<>>]
       ELSE [handler |-> "get_weekly_email_summary", code |-> 200,
             body |-> [weekly_applications |-> Len(weekly_jobs),
                       status_counts |-> StatusCounts(weekly_jobs),
                       follow_ups_count |-> Len(follow_ups)]]

\* the year and the day of the month of an ordinal
YearOf(ord) ==
    CHOOSE y \in (ord \div 366)..(ord \div 365 + 1) :
        y >= 1 /\ DaysBeforeYear(y) < ord /\ ord <= DaysBeforeYear(y + 1)

DayOfMonth(ord) ==
    LET y == YearOf(ord)
        n == ord - DaysBeforeYear(y)
        m == CHOOSE k \in 1..12 :
                DaysBeforeMonth(y, k) < n /\ n <= DaysBeforeMonth(y, k) + DaysInMonth(y, k)
    IN n - DaysBeforeMonth(y, m)

\* today.replace(day=1, hour=0, minute=0, second=0, microsecond=0)
FirstOfMonth(nowT) == At(DateOf(nowT) - (DayOfMonth(DateOf(nowT)) - 1), 0)

\* (the salary averages and the top companies are not part of this model)
get_monthly_email_summary(js, nowT) ==
    LET today == nowT
        first_day == FirstOfMonth(today)
        all_jobs == Take(js, 1000)
        monthly_jobs == SelectSeq(all_jobs, LAMBDA j :
                           Present(j.date_applied) /\ j.date_applied.t >= first_day)
        follow_ups == SelectSeq(all_jobs, LAMBDA j : SummaryFollowUp(j, today))
    IN IF \E i \in 1..Len(all_jobs) : SummaryRaises(all_jobs[i])
       THEN [handler |-> "get_monthly_email_summary", code |-> 500, body |-> <<>>]
       ELSE [handler |-> "get_monthly_email_summary", code |-> 200,
             body |-> [total_applications |-> Len(all_jobs),
                       monthly_applications |-> Len(monthly_jobs),
                       status_counts |-> StatusCounts(all_jobs),
                       work_mode_counts |-> WorkModeCounts(all_jobs),
                       response_rate |-> ResponseRate(all_jobs),
                       follow_ups_count |-> Len(follow_ups)]]

(***************************************************************************)
(* POST /reports/generate/{report_type}                                    *)
(***************************************************************************)
\* What generate_report's weekly branch makes of a stored date_applied: a
\* string that fromisoformat rejects is skipped ("continue"), a string
\* without offset stays naive and fails the comparison with a TypeError.
ReportSkips(job) == ~ Present(job.date_applied) \/ job.date_applied.kind = "bad"

ReportRaises(job) == job.date_applied.kind = "iso_naive"

WeeklyStats(all_jobs, today) ==
    LET week_start == today - 7 * TicksPerDay
        weekly_jobs == SelectSeq(all_jobs, LAMBDA j :
                          ~ ReportSkips(j) /\ j.date_applied.t >= week_start)
        status_counts == StatusCounts(weekly_jobs)
        follow_ups == SelectSeq(all_jobs, LAMBDA j :
                          /\ j.status = "applied"
                          /\ ~ ReportSkips(j)
                          /\ DaysBetween(today, j.date_applied.t) > 7)
    IN [weekly_applications |-> Len(weekly_jobs),
        status_counts |-> status_counts,
        follow_ups_count |-> Len(follow_ups)]

MonthlyStats(all_jobs) ==
    [total_applications |-> Len(all_jobs),
     status_counts |-> StatusCounts(all_jobs),
     work_mode_counts |-> WorkModeCounts(all_jobs),
     response_rate |-> ResponseRate(all_jobs)]

\* the number in the "Follow-up Reminders (n)" heading of the content
ShownFollowUps(report_type, all_jobs, today) ==
    IF report_type = "weekly" THEN WeeklyStats(all_jobs, today).follow_ups_count
    ELSE Len(SelectSeq(all_jobs, LAMBDA j : j.status = "applied"))

\* The handler up to the insert: raised, or the document to insert.  Every
\* report_type other than "weekly" takes the monthly branch.
\* (the salary averages of the monthly content are not part of this model)
generate_report(report_type, user, js, nowT, report_id) ==
    LET today == nowT
        all_jobs == Take(js, 1000)
        weekly == report_type = "weekly"
    IN IF weekly /\ \E i \in 1..Len(all_jobs) :
                       ~ ReportSkips(all_jobs[i]) /\ ReportRaises(all_jobs[i])
       THEN [raised |-> TRUE, doc |-> <<>>]
       ELSE [raised |-> FALSE,
             doc |-> [report_id |-> report_id,
                      user_id |-> user,
                      report_type |-> report_type,
                      date_range |-> IF weekly THEN <<DateOf(today - 7 * TicksPerDay), DateOf(today)>>
                                     ELSE <<DateOf(today)>>,
                      content |-> [follow_ups |-> ShownFollowUps(report_type, all_jobs, today)],
                      stats |-> IF weekly THEN WeeklyStats(all_jobs, today)
                                ELSE MonthlyStats(all_jobs),
                      created_at |-> today,
                      is_read |-> FALSE]]

(***************************************************************************)
(* The stored reports: get_reports, get_report_detail, delete_report.      *)
(*                                                                         *)
(* insert_one gives every document an _id besides the report_id that       *)
(* generate_report wrote.  ObjectIds and uuids are numbered by order of    *)
(* issue, so the document whose report_id is the n-th uuid has the n-th    *)
(* ObjectId as _id.  The report_id of a request path is the 24 hex digits  *)
(* of an ObjectId ("oid"), the text of a uuid ("uuid"), or neither         *)
(* ("other").                                                              *)
(***************************************************************************)
ReportId(form, n) == [form |-> form, n |-> n]

\* ObjectId(report_id) returns (it raises InvalidId on every other string)
IsObjectId(report_id) == report_id.form = "oid"

\* a get_report_detail that flips the flag
MarkReadToggle(report) == [report EXCEPT !.is_read = ~ report.is_read]

\* {"$set": {"is_read": True}}
MarkRead(report) == [report EXCEPT !.is_read = TRUE]

\* a query without the user_id condition
OwnedByAnyone(report, user) == TRUE

\* the "user_id": current_user.user_id condition of every reports query
Owned(report, user) == report.user_id = user

\* The document that the try/except of get_report_detail and delete_report
\* selects: by _id when the path is an ObjectId, by report_id otherwise;
\* its position in the collection, 0 when there is none.
FindReport(rs, report_id, user) ==
    LET hits == {i \in 1..Len(rs) :
                    /\ Owned(rs[i], user)
                    /\ IF IsObjectId(report_id)
                       THEN rs[i].report_id = report_id.n
                       ELSE report_id.form = "uuid" /\ rs[i].report_id = report_id.n}
    IN IF hits = {} THEN 0 ELSE CHOOSE i \in hits : \A h \in hits : i <= h

\* str(report.get("_id", report.get("report_id")))
ShownId(report) == ReportId("oid", report.report_id)

\* the answer of get_report_detail and the collection it leaves
get_report_detail(rs, report_id, user) ==
    LET i == FindReport(rs, report_id, user)
    IN IF i = 0
       THEN [code |-> 404, body |-> <<>>, reports |-> rs]
       ELSE [code |-> 200,
             body |-> [report_id |-> ShownId(rs[i]),
                       report_type |-> rs[i].report_type,
                       date_range |-> rs[i].date_range,
                       content |-> rs[i].content,
                       stats |-> rs[i].stats,
                       created_at |-> rs[i].created_at,
                       is_read |-> TRUE],
             reports |-> [rs EXCEPT ![i] = MarkRead(rs[i])]]

\* the answer of delete_report and the collection it leaves
delete_report(rs, report_id, user) ==
    LET i == FindReport(rs, report_id, user)
    IN IF i = 0
       THEN [code |-> 404, body |-> <<>>, reports |-> rs]
       ELSE [code |-> 200, body |-> <<>>,
             reports |-> SubSeq(rs, 1, i - 1) \o SubSeq(rs, i + 1, Len(rs))]

\* The orders in which find(query).sort("created_at", -1) may yield the
\* documents of the user: newest first, documents of one created_at in any
\* order.
SortedNewestFirst(rs, user) ==
    LET mine == {i \in 1..Len(rs) : Owned(rs[i], user)}
        n == Cardinality(mine)
    IN {o \in [1..n -> mine] :
           /\ \A p, q \in 1..n : p # q => o[p] # o[q]
           /\ \A p, q \in 1..n : p < q => rs[o[p]].created_at >= rs[o[q]].created_at}

\* the list get_reports answers with, for one such order
get_reports(rs, order, page, limit) ==
    LET skip == (page - 1) * limit
        found == Take(SubSeq(order, skip + 1, Len(order)), limit)
    IN [p \in 1..Len(found) |->
           [report_id |-> ShownId(rs[found[p]]),
            report_type |-> rs[found[p]].report_type,
            date_range |-> rs[found[p]].date_range,
            created_at |-> rs[found[p]].created_at,
            is_read |-> rs[found[p]].is_read]]

(***************************************************************************)
(* Sessions: get_current_user, the sign-in that stores a session, logout.  *)
(*                                                                         *)
(* An Authorization header is a sequence of pieces, each the text          *)
(* "Bearer " or the text of a token; the empty sequence is the empty       *)
(* string.  The header of a request is <<>> when absent and <<text>> when   *)
(* sent.                                                                   *)
(***************************************************************************)
NoHeader == <<>>

Header(text) == <<text>>

Bearer == "Bearer "

TestToken == "test_token_abc123"

TestUser == "test_user_001"

SessionDays == 7

\* authorization.replace("Bearer ", "") if authorization.startswith("Bearer ")
\* else authorization
SessionTokenOf(authorization) ==
    IF Len(authorization) > 0 /\ authorization[1] = Bearer
    THEN SelectSeq(authorization, LAMBDA piece : piece # Bearer)
    ELSE authorization

\* find_one({"session_token": session_token}): the stored sessions with it
SessionsWith(stored, session_token) ==
    {session \in stored : <<session.session_token>> = session_token}

\* the answer of a request that depends on get_current_user
get_current_user(stored, authorization, nowT) ==
    IF authorization = NoHeader \/ authorization = Header(<<>>)
    THEN [code |-> 401, user_id |-> None]
    ELSE LET session_token == SessionTokenOf(authorization[1])
         IN IF session_token = <<TestToken>>
            THEN [code |-> 200, user_id |-> TestUser]
            ELSE IF SessionsWith(stored, session_token) = {}
            THEN [code |-> 401, user_id |-> None]
            ELSE LET session == CHOOSE x \in SessionsWith(stored, session_token) : TRUE
                 IN IF session.expires_at < nowT
                    THEN [code |-> 401, user_id |-> None]
                    ELSE [code |-> 200, user_id |-> session.user_id]

\* the sessions logout leaves
logout(stored, authorization) ==
    IF authorization = NoHeader \/ authorization = Header(<<>>)
    THEN stored
    ELSE stored \ SessionsWith(stored, SessionTokenOf(authorization[1]))

(***************************************************************************)
(* The insight engine over a growing job collection.                       *)
(***************************************************************************)
\* the location of the applications whose location does not matter
Austin == [city |-> << <<"A", "u", "s", "t", "i", "n">> >>, state |-> << <<"T", "e", "x", "a", "s">> >>]

Job(company, status, prio, ustage, usched, applied, created, fud, mode) ==
    [company_name |-> company, status |-> status, is_priority |-> prio,
     upcoming_stage |-> ustage, upcoming_schedule |-> usched,
     date_applied |-> applied, created_at |-> created,
     follow_up_days |-> fud, work_mode |-> mode,
     position |-> "Engineer", location |-> Austin]

\* Tuesday 5 March 2024
Today == ToOrdinal(2024, 3, 5)

Noon == TicksPerDay \div 2

DaysAgo(n, k) == Stored("datetime", At(Today - n, k))

\* Eight applications that between them fire every rule of the engine:
\* three priority companies past the phone screen (one interviewing today),
\* a second, plain application at the first company, a late-stage interview
\* today, an offer, a recent rejection and a ghosted application.  Five of
\* them are due for a follow-up.
InsightJobs ==
    { Job("Acme", "coding_round_1", TRUE, "system_design",
          <<"3", "/", "5", "/", "2", "4">>, DaysAgo(1, 0), DaysAgo(1, 0), <<1>>, "remote"),
      Job("Beta", "system_design", TRUE, None, <<>>,
          Stored("iso", At(Today - 10, 0)), DaysAgo(10, 0), <<3>>, "hybrid"),
      Job("Coda", "coding_round_2", TRUE, "", <<"3", "-", "9", "-", "2", "0", "2", "4">>,
          NoStored, DaysAgo(20, Noon), <<7>>, "onsite"),
      Job("Acme", "applied", FALSE, None, <<>>, DaysAgo(12, 0), DaysAgo(12, 0), <<7>>, "remote"),
      Job("Etna", "hiring_manager", FALSE, "final_round",
          <<"0", "3", "-", "0", "5", "-", "2", "4">>, DaysAgo(9, 0), DaysAgo(9, 0), <<2>>, "hybrid"),
      Job("Omni", "offer", FALSE, None, <<>>, DaysAgo(30, 0), DaysAgo(30, 0), <<>>, "remote"),
      Job("Rex", "rejected", FALSE, None, <<>>, DaysAgo(5, 0), DaysAgo(5, 0), <<>>, "remote"),
      Job("Fox", "ghosted", TRUE, None, <<>>, DaysAgo(40, 0), DaysAgo(40, 0), <<5>>, "onsite") }

NoResponse == [handler |-> "none", code |-> 0, body |-> <<>>]

\* The random module's generator: its state decides both random.choice
\* calls of a request.  Draw(seed, n) is the index it picks in a list of n.
Draw(seed, n) == ((seed - 1) % n) + 1

CurrentUser == "u1"

Users == {CurrentUser, "u2"}

\* the users collection, reduced to the applications_count every user
\* document is created with
NoCounts == [user \in Users |-> 0]

Init ==
    /\ jobs = <<>>
    /\ now = At(Today, Noon)
    /\ response = NoResponse
    /\ reports = <<>>
    /\ issued = 0
    /\ sessions = {}
    /\ requests = <<>>
    /\ applications_count = NoCounts

\* a job document reaches the collection (create_job's insert_one), which
\* holds at most limit documents
StoreJob(j, limit) ==
    /\ Len(jobs) < limit
    /\ jobs' = Append(jobs, j)
    /\ response' = NoResponse
    /\ UNCHANGED <<now, reports, issued, sessions, requests,
                 applications_count>>

GetAiInsights ==
    /\ \E seed \in 1..MaxSeeds :
          response' = get_ai_insights(jobs, now, Draw(seed, 5), Draw(seed, 3))
    /\ UNCHANGED <<jobs, now, reports, issued, sessions, requests,
                 applications_count>>

GetUpcomingInterviews ==
    /\ response' = get_upcoming_interviews(jobs, now)
    /\ UNCHANGED <<jobs, now, reports, issued, sessions, requests,
                 applications_count>>

GetDashboardStats ==
    /\ response' = get_dashboard_stats(jobs, now)
    /\ UNCHANGED <<jobs, now, reports, issued, sessions, requests,
                 applications_count>>

GetWeeklyEmailSummary ==
    /\ response' = get_weekly_email_summary(jobs, now)
    /\ UNCHANGED <<jobs, now, reports, issued, sessions, requests,
                 applications_count>>

GetMonthlyEmailSummary ==
    /\ response' = get_monthly_email_summary(jobs, now)
    /\ UNCHANGED <<jobs, now, reports, issued, sessions, requests,
                 applications_count>>


\* the documents of find({"user_id": user}): the applications of the model
\* are CurrentUser's, every other user has none
JobsOf(user) == IF user = CurrentUser THEN jobs ELSE <<>>

\* the whole of generate_report for one user: the computation, the insert,
\* the answer; limit bounds the number of reports ever generated
GenerateReportAs(user, report_type, limit) ==
    /\ issued < limit
    /\ LET r == generate_report(report_type, user, JobsOf(user), now, issued + 1)
       IN IF r.raised
          THEN /\ response' = [handler |-> "generate_report", code |-> 500, body |-> <<>>]
               /\ UNCHANGED <<reports, issued>>
          ELSE /\ reports' = Append(reports, r.doc)
               /\ issued' = issued + 1
               /\ response' = [handler |-> "generate_report", code |-> 200,
                               body |-> [report_id |-> r.doc.report_id,
                                         report_type |-> report_type]]
    /\ UNCHANGED <<jobs, now, sessions, requests,
                 applications_count>>

GenerateReport(report_type) == GenerateReportAs(CurrentUser, report_type, MaxReports)

GetReports(user, page, limit) ==
    /\ \E order \in SortedNewestFirst(reports, user) :
          response' = [handler |-> "get_reports", code |-> 200,
                       body |-> get_reports(reports, order, page, limit),
                       user |-> user]
    /\ UNCHANGED <<jobs, now, reports, issued, sessions, requests,
                 applications_count>>

GetReportDetail(user, report_id) ==
    /\ LET r == get_report_detail(reports, report_id, user)
       IN /\ reports' = r.reports
          /\ response' = [handler |-> "get_report_detail", code |-> r.code,
                          body |-> r.body, user |-> user, request |-> report_id]
    /\ UNCHANGED <<jobs, now, issued, sessions, requests,
                 applications_count>>

DeleteReport(user, report_id) ==
    /\ LET r == delete_report(reports, report_id, user)
       IN /\ reports' = r.reports
          /\ response' = [handler |-> "delete_report", code |-> r.code,
                          body |-> r.body, user |-> user, request |-> report_id]
    /\ UNCHANGED <<jobs, now, issued, sessions, requests,
                 applications_count>>

\* the applications of the catalog that are not stored yet: every
\* application is a document of its own
Fresh(catalog) == catalog \ Range(jobs)

Next ==
    \/ \E j \in Fresh(InsightJobs) : StoreJob(j, MaxJobs)
    \/ GetAiInsights
    \/ GetUpcomingInterviews

Spec == Init /\ [][Next]_vars

(***************************************************************************)
(* Applications whose dates are old, in the future or unreadable.          *)
(***************************************************************************)
Plain(company, status, applied, created) ==
    Job(company, status, FALSE, None, <<>>, applied, created, <<>>, "remote")

\* Three applications sent 35 days (25 business days) ago, one whose
\* date_applied update_job replaced by a string that is no date, one whose
\* created_at is such a string, one whose date_applied is an ISO string
\* without offset.
StaleJobs ==
    { Plain("Gala", "applied", DaysAgo(35, Noon), DaysAgo(35, Noon)),
      Plain("Gem", "applied", DaysAgo(35, Noon), DaysAgo(35, Noon)),
      Plain("Gust", "applied", DaysAgo(35, Noon), DaysAgo(35, Noon)),
      Plain("Bade", "phone_screen", BadDateString, DaysAgo(2, 0)),
      Plain("Bode", "applied", DaysAgo(2, 0), BadDateString),
      Plain("Nave", "offer", Stored("iso_naive", At(Today - 2, 0)), DaysAgo(2, 0)) }

NextStale ==
    \/ \E j \in Fresh(StaleJobs) : StoreJob(j, MaxStaleJobs)
    \/ GetAiInsights
    \/ GetDashboardStats
    \/ GetWeeklyEmailSummary
    \/ GetMonthlyEmailSummary

SpecStale == Init /\ [][NextStale]_vars

\* Applications around the weekly window: 3 and 10 days old, exactly 7 days
\* old, dated tomorrow, and the two kinds of unreadable date.
ReportJobs ==
    { Plain("Trio", "applied", DaysAgo(3, Noon), DaysAgo(3, Noon)),
      Plain("Deca", "applied", DaysAgo(10, Noon), DaysAgo(10, Noon)),
      Plain("Sept", "phone_screen", Stored("iso", At(Today - 7, Noon)), DaysAgo(7, Noon)),
      Plain("Morn", "offer", Stored("datetime", At(Today + 1, Noon)), DaysAgo(0, 0)),
      Plain("Bade", "phone_screen", BadDateString, DaysAgo(2, 0)),
      Plain("Nave", "offer", Stored("iso_naive", At(Today - 2, 0)), DaysAgo(2, 0)) }

ReportTypes == {"weekly", "monthly", "yearly"}

NextReport ==
    \/ \E j \in Fresh(ReportJobs) : StoreJob(j, MaxReportJobs)
    \/ \E t \in ReportTypes : GenerateReport(t)

SpecReport == Init /\ [][NextReport]_vars

(***************************************************************************)
(* The response rate over every mix of answered and unanswered             *)
(* applications.                                                           *)
(***************************************************************************)
RateJobs ==
    { Plain("Wait", "applied", DaysAgo(3, 0), DaysAgo(3, 0)),
      Plain("Heard", "phone_screen", DaysAgo(3, 0), DaysAgo(3, 0)) }

InitRate ==
    /\ jobs \in UNION { [1..n -> RateJobs] : n \in 0..MaxRateJobs }
    /\ now = At(Today, Noon)
    /\ response = NoResponse
    /\ reports = <<>>
    /\ issued = 0
    /\ sessions = {}
    /\ requests = <<>>
    /\ applications_count = NoCounts

NextRate ==
    \/ GenerateReport("monthly")
    \/ GetMonthlyEmailSummary

SpecRate == InitRate /\ [][NextRate]_vars

(***************************************************************************)
(* The age of one application, for every weekday and time of day it can    *)
(* have been sent on and every age up to MaxSpan days.                     *)
(***************************************************************************)
\* Monday 4 March 2024
Monday == ToOrdinal(2024, 3, 4)

AgedJob(t) ==
    Job("Solo", "applied", FALSE, None, <<>>, Stored("datetime", t),
        Stored("datetime", t), <<1>>, "remote")

InitBiz ==
    /\ \E d \in 0..6, k \in 0..(TicksPerDay - 1), span \in 0..MaxSpan,
          k2 \in 0..(TicksPerDay - 1) :
          /\ jobs = << AgedJob(At(Monday + d, k)) >>
          /\ now = At(Monday + d + span, k2)
    /\ response = NoResponse
    /\ reports = <<>>
    /\ issued = 0
    /\ sessions = {}
    /\ requests = <<>>
    /\ applications_count = NoCounts

NextBiz == GetAiInsights

SpecBiz == InitBiz /\ [][NextBiz]_vars

(***************************************************************************)
(* One application with every short schedule string, and the strings of    *)
(* the documentation, read on 1 January 2001.                              *)
(***************************************************************************)
SchedAlphabet == {"0", "1", "/", "-", "x"}

NamedSchedules ==
    { <<"3", "/", "5", "/", "2", "4">>,
      <<"1", "3", "/", "4", "5", "/", "9", "9">>,
      <<"0", "3", "-", "0", "5", "-", "2", "0", "2", "4">>,
      <<"2", "/", "2", "9", "/", "2", "4">>,
      <<"2", "/", "2", "9", "/", "2", "3">>,
      <<"1", "2", "/", "3", "1", "/", "2", "0", "0", "0">>,
      <<"1", "/", "1", "/", "1", "0", "0", "0", "0">>,
      <<"3", "/", "5", "/", "2", "4", "/", "1">> }

ScheduleStrings ==
    UNION { [1..n -> SchedAlphabet] : n \in 0..MaxSchedLen } \cup NamedSchedules

ScheduledJob(sched) ==
    Job("Solo", "applied", FALSE, "phone_screen", sched,
        NoStored, NoStored, <<>>, "remote")

InitSchedule ==
    /\ \E sched \in ScheduleStrings : jobs = << ScheduledJob(sched) >>
    /\ now = At(ToOrdinal(2001, 1, 1), 0)
    /\ response = NoResponse
    /\ reports = <<>>
    /\ issued = 0
    /\ sessions = {}
    /\ requests = <<>>
    /\ applications_count = NoCounts

NextSchedule ==
    \/ GetUpcomingInterviews
    \/ GetAiInsights

SpecSchedule == InitSchedule /\ [][NextSchedule]_vars

(***************************************************************************)
(* Applications in known states, unknown states, states of one character   *)
(* or none, and locations with a key missing.                              *)
(***************************************************************************)
Located(company, city, state) ==
    [Plain(company, "applied", DaysAgo(1, 0), DaysAgo(1, 0))
        EXCEPT !.location = [city |-> city, state |-> state]]

Springfield == <<"S", "p", "r", "i", "n", "g", "f", "i", "e", "l", "d">>

LocationJobs ==
    { Located("Abe", <<Springfield>>, << <<"I", "l", "l", "i", "n", "o", "i", "s">> >>),
      Located("Bart", <<Springfield>>, << <<"I", "l", "l", "i", "n", "o", "i", "s">> >>),
      Located("Marx", << <<"X">> >>, << <<"F", "r", "e", "e", "d", "o", "n", "i", "a">> >>),
      Located("Lone", <<>>, << <<"T", "e", "x", "a", "s">> >>),
      Located("Yuma", << <<"Y">> >>, <<>>),
      Located("Void", <<>>, <<>>),
      Located("Zed", << <<"Z">> >>, << <<"x">> >>),
      Located("Zero", << <<"Z">> >>, << <<>> >>),
      Located("Wall", << <<"W">> >>, << <<"N", "e", "w", " ", "Y", "o", "r", "k">> >>) }

NextLocation ==
    \/ \E j \in Fresh(LocationJobs) : StoreJob(j, MaxLocJobs)
    \/ GetDashboardStats

SpecLocation == Init /\ [][NextLocation]_vars

(***************************************************************************)
(* Applications whose status is a stage, a string that is no stage, the    *)
(* blank string, or the name of another key of the stats.                  *)
(***************************************************************************)
StatusJobs ==
    { Plain("Able", "applied", DaysAgo(1, 0), DaysAgo(1, 0)),
      Plain("Offa", "offer", DaysAgo(1, 0), DaysAgo(1, 0)),
      Plain("Ghost", "ghosted", DaysAgo(1, 0), DaysAgo(1, 0)),
      Plain("Blank", "", DaysAgo(1, 0), DaysAgo(1, 0)),
      Plain("Hold", "on_hold", DaysAgo(1, 0), DaysAgo(1, 0)),
      Plain("Tote", "total", DaysAgo(1, 0), DaysAgo(1, 0)),
      Plain("Dict", "by_position", DaysAgo(1, 0), DaysAgo(1, 0)) }

NextStatus ==
    \/ \E j \in Fresh(StatusJobs) : StoreJob(j, MaxStatusJobs)
    \/ GetDashboardStats

SpecStatus == Init /\ [][NextStatus]_vars

(***************************************************************************)
(* The reports of two users, from generation to deletion.                  *)
(***************************************************************************)

\* the report_id of a request path: both forms of every id that can have
\* been issued, of one that never is, and a text that is no id
RequestIds ==
    {ReportId(form, n) : form \in {"oid", "uuid"}, n \in 1..(MaxStoredReports + 1)}
        \cup {ReportId("other", 1)}

InitReports ==
    /\ jobs = << Plain("Trio", "applied", DaysAgo(3, Noon), DaysAgo(3, Noon)),
                 Plain("Deca", "phone_screen", DaysAgo(10, Noon), DaysAgo(10, Noon)) >>
    /\ now = At(Today, Noon)
    /\ response = NoResponse
    /\ reports = <<>>
    /\ issued = 0
    /\ sessions = {}
    /\ requests = <<>>
    /\ applications_count = NoCounts

NextReports ==
    \/ \E user \in Users, t \in ReportTypes : GenerateReportAs(user, t, MaxStoredReports)
    \/ \E user \in Users, page \in 1..MaxPage, limit \in {1, 20} : GetReports(user, page, limit)
    \/ \E user \in Users, id \in RequestIds : GetReportDetail(user, id)
    \/ \E user \in Users, id \in RequestIds : DeleteReport(user, id)

SpecReports == InitReports /\ [][NextReports]_vars

(***************************************************************************)
(* The email summaries and the reports over the same applications.         *)
(***************************************************************************)
\* every list of at most MaxSummaryJobs different applications of ReportJobs
SummaryJobLists ==
    UNION { {js \in [1..n -> ReportJobs] : \A p, q \in 1..n : p # q => js[p] # js[q]} :
            n \in 0..MaxSummaryJobs }

InitSummary ==
    /\ jobs \in SummaryJobLists
    /\ now = At(Today, Noon)
    /\ response = NoResponse
    /\ reports = <<>>
    /\ issued = 0
    /\ sessions = {}
    /\ requests = <<>>
    /\ applications_count = NoCounts

NextSummary ==
    \/ \E t \in {"weekly", "monthly"} : GenerateReport(t)
    \/ GetWeeklyEmailSummary
    \/ GetMonthlyEmailSummary

SpecSummary == InitSummary /\ [][NextSummary]_vars

(***************************************************************************)
(* Scheduled interviews: far and near, without a stage, past, unreadable.  *)
(***************************************************************************)
Scheduled(company, ustage, usched) ==
    Job(company, "phone_screen", FALSE, ustage, usched, DaysAgo(1, 0), DaysAgo(1, 0),
        <<>>, "remote")

\* Interviews on 9 March and 6 March 2024 (4 days and 1 day after Today),
\* a schedule on 7 March whose upcoming_stage is null and one whose
\* upcoming_stage is "", an interview on 1 March, a schedule that is no date.
UpcomingJobs ==
    { Scheduled("Far", "final_round", <<"3", "/", "9", "/", "2", "0", "2", "4">>),
      Scheduled("Near", "system_design", <<"0", "3", "-", "0", "6", "-", "2", "4">>),
      Scheduled("Null", None, <<"3", "/", "7", "/", "2", "0", "2", "4">>),
      Scheduled("Void", "", <<"3", "/", "7", "/", "2", "0", "2", "4">>),
      Scheduled("Past", "final_round", <<"3", "/", "1", "/", "2", "0", "2", "4">>),
      Scheduled("Junk", "final_round", <<"s", "o", "o", "n">>) }

NextUpcoming ==
    \/ \E j \in Fresh(UpcomingJobs) : StoreJob(j, MaxUpcomingJobs)
    \/ GetAiInsights
    \/ GetUpcomingInterviews

SpecUpcoming == Init /\ [][NextUpcoming]_vars

(***************************************************************************)
(* Applications with and without follow_up_days, of every age around it.   *)
(***************************************************************************)
Waiting(company, status, age, fud) ==
    Job(company, status, FALSE, None, <<>>, DaysAgo(age, Noon), DaysAgo(age, Noon),
        fud, "remote")

\* follow_up_days 3 at the ages 5, 3 and 2; follow_up_days 0; none; the
\* three statuses that end an application
FollowUpJobs ==
    { Waiting("Due", "applied", 5, <<3>>),
      Waiting("Edge", "phone_screen", 3, <<3>>),
      Waiting("Soon", "applied", 2, <<3>>),
      Waiting("Zero", "applied", 2, <<0>>),
      Waiting("Unset", "applied", 9, <<>>),
      Waiting("Won", "offer", 9, <<3>>),
      Waiting("Lost", "rejected", 9, <<3>>),
      Waiting("Gone", "ghosted", 9, <<3>>) }

NextFollowUp ==
    \/ \E j \in Fresh(FollowUpJobs) : StoreJob(j, MaxFollowJobs)
    \/ GetAiInsights

SpecFollowUp == Init /\ [][NextFollowUp]_vars

(***************************************************************************)
(* More follow-ups due than the answer shows, of every urgency.            *)
(***************************************************************************)
Overdue(company, status, prio, age) ==
    Job(company, status, prio, None, <<>>, DaysAgo(age, Noon), DaysAgo(age, Noon),
        <<3>>, "remote")

\* follow_up_days 3 throughout: overdue by 1 to 6 days, two of them by the
\* same 4, critical (priority), high (applied, recruiter_screening) and
\* medium
OrderJobs ==
    { Overdue("Med6", "phone_screen", FALSE, 9),
      Overdue("High1", "applied", FALSE, 4),
      Overdue("High4", "recruiter_screening", FALSE, 7),
      Overdue("Crit2", "applied", TRUE, 5),
      Overdue("Crit4", "final_round", TRUE, 7),
      Overdue("Med4", "coding_round_1", FALSE, 7) }

NextOrder ==
    \/ \E j \in Fresh(OrderJobs) : StoreJob(j, MaxOrderJobs)
    \/ GetAiInsights

SpecOrder == Init /\ [][NextOrder]_vars

(***************************************************************************)
(* Applications at every depth of the pipeline, ended ones included.       *)
(***************************************************************************)
\* Statuses before and past phone_screen, an offer, a ghosted application,
\* a rejection 5 days old and one 20 days old, a status that is no stage.
StageJobs ==
    { Plain("Appl", "applied", DaysAgo(5, 0), DaysAgo(5, 0)),
      Plain("Phone", "phone_screen", DaysAgo(5, 0), DaysAgo(5, 0)),
      Plain("Code", "coding_round_1", DaysAgo(5, 0), DaysAgo(5, 0)),
      Plain("Final", "final_round", DaysAgo(5, 0), DaysAgo(5, 0)),
      Plain("Offer", "offer", DaysAgo(5, 0), DaysAgo(5, 0)),
      Plain("Ghost", "ghosted", DaysAgo(5, 0), DaysAgo(5, 0)),
      Plain("Rej5", "rejected", DaysAgo(5, 0), DaysAgo(5, 0)),
      Plain("Rej20", "rejected", DaysAgo(20, 0), DaysAgo(20, 0)),
      Plain("Hold", "on_hold", DaysAgo(5, 0), DaysAgo(5, 0)) }

NextStages ==
    \/ \E j \in Fresh(StageJobs) : StoreJob(j, MaxStageJobs)
    \/ GetAiInsights

SpecStages == Init /\ [][NextStages]_vars

(***************************************************************************)
(* Applications and interviews inside and outside the current week         *)
(* (Today is a Tuesday: the week runs from 4 to 10 March 2024).            *)
(***************************************************************************)
Activity(company, age, ustage, usched) ==
    Job(company, "phone_screen", FALSE, ustage, usched, DaysAgo(age, Noon),
        DaysAgo(age, Noon), <<>>, "remote")

\* Applied 20 days ago, yesterday (Monday), two days ago (Sunday) and in a
\* week's time; interviews on Friday 8 March, on Monday 11 March and on
\* 20 March.
MomentumJobs ==
    { Activity("Old", 20, None, <<>>),
      Activity("Mon", 1, None, <<>>),
      Activity("Sun", 2, None, <<>>),
      Activity("Ahead", -7, None, <<>>),
      Activity("Fri", 20, "final_round", <<"3", "/", "8", "/", "2", "0", "2", "4">>),
      Activity("Next", 20, "final_round", <<"3", "/", "1", "1", "/", "2", "0", "2", "4">>),
      Activity("Late", 20, "final_round", <<"3", "/", "2", "0", "/", "2", "0", "2", "4">>) }

NextMomentum ==
    \/ \E j \in Fresh(MomentumJobs) : StoreJob(j, MaxMomentumJobs)
    \/ GetAiInsights

SpecMomentum == Init /\ [][NextMomentum]_vars

(***************************************************************************)
(* Companies with one or several applications, priority or not.            *)
(***************************************************************************)
Coached(company, status, prio, ustage) ==
    Job(company, status, prio, ustage, <<>>, DaysAgo(20, Noon), DaysAgo(20, Noon),
        <<>>, "remote")

\* Five companies with a priority application at a coached stage, one of
\* them (Xeno) with an offer as well, one (Zed) with three applications, one
\* (Wex) with an upcoming_stage; a company without priority.
CoachJobs ==
    { Coached("Xeno", "coding_round_1", TRUE, None),
      Coached("Xeno", "offer", TRUE, None),
      Coached("Yoyo", "final_round", TRUE, None),
      Coached("Zed", "phone_screen", TRUE, None),
      Coached("Zed", "applied", FALSE, None),
      Coached("Zed", "coding_round_2", TRUE, None),
      Coached("Wex", "hiring_manager", TRUE, "system_design"),
      Coached("Uno", "system_design", TRUE, None),
      Coached("Vim", "behavioural", FALSE, None) }

NextCoach ==
    \/ \E j \in Fresh(CoachJobs) : StoreJob(j, MaxCoachJobs)
    \/ GetAiInsights

SpecCoach == Init /\ [][NextCoach]_vars

(***************************************************************************)
(* create_job, update_job and delete_job as concurrent requests.  Every    *)
(* await of a handler is one step: the database performs one operation at  *)
(* a time, and between two operations of one request any other request     *)
(* may run.  requests lists the requests in order of arrival, each with    *)
(* the position it has reached (pc) and the locals it holds.               *)
(***************************************************************************)

\* the fields of a job document these handlers read or write
Document(job_id, user, status, t) ==
    [job_id |-> job_id, user_id |-> user, status |-> status,
     stages |-> << [status |-> status, timestamp |-> t] >>, updated_at |-> t]

\* the positions of the documents a filter {"job_id", "user_id"} matches
Matching(js, job_id, user) ==
    { i \in 1..Len(js) : js[i].job_id = job_id /\ js[i].user_id = user }

\* the positions of the documents the filter {"job_id"} matches
MatchingId(js, job_id) == { i \in 1..Len(js) : js[i].job_id = job_id }

Lowest(S) == CHOOSE i \in S : \A k \in S : i <= k

\* the collection without its document at position i
Remove(js, i) == SubSeq(js, 1, i - 1) \o SubSeq(js, i + 1, Len(js))

\* find_one: Optional document
find_one(js, S) == IF S = {} THEN <<>> ELSE << js[Lowest(S)] >>

\* a mutation of delete_one: it reports a deleted document whatever it found
delete_one_always(js, job_id, user) ==
    LET S == Matching(js, job_id, user)
    IN [jobs |-> IF S = {} THEN js ELSE Remove(js, Lowest(S)), deleted_count |-> 1]

\* delete_one({"job_id", "user_id"}): the first matching document goes, and
\* the result counts it
delete_one(js, job_id, user) ==
    LET S == Matching(js, job_id, user)
    IN IF S = {}
       THEN [jobs |-> js, deleted_count |-> 0]
       ELSE [jobs |-> Remove(js, Lowest(S)), deleted_count |-> 1]

\* update_one({"user_id"}, {"$inc": {"applications_count": by}})
IncApplications(counts, user, by) == [counts EXCEPT ![user] = @ + by]

\* update_job's update_data, from the document it read and the status of
\* the request (None: the request carries no status); the fields are those
\* that are not None, stages only when the status differs from the read one
update_data(job, status, t) ==
    LET named == IF status = None THEN <<>> ELSE [status |-> status]
        staged == IF status # None /\ status # job.status
                  THEN [stages |-> Append(job.stages,
                                          [status |-> status, timestamp |-> t])]
                  ELSE <<>>
    IN named @@ staged @@ [updated_at |-> t]

\* update_one({"job_id", "user_id"}, {"$set": data}): the named fields of
\* the first matching document are replaced, a filter matching nothing
\* changes nothing
SetFields(js, job_id, user, data) ==
    LET S == Matching(js, job_id, user)
    IN IF S = {} THEN js
       ELSE [js EXCEPT ![Lowest(S)] = data @@ @]

JobIds == 1..MaxRequests

RequestStatuses == {None, "applied", "phone_screen", "offer"}

Finish(i, code) == [requests EXCEPT ![i].pc = "done", ![i].code = code]

Arrive(handler, user, job_id, pc, code, job) ==
    Append(requests, [handler |-> handler, user |-> user, job_id |-> job_id,
                      pc |-> pc, code |-> code, job |-> job])

\* create_job up to the end of insert_one: the uuid, the document
CreateJobInsert(user, status) ==
    /\ Len(requests) < MaxRequests
    /\ jobs' = Append(jobs, Document(issued + 1, user, status, now))
    /\ issued' = issued + 1
    /\ requests' = Arrive("create_job", user, issued + 1, "inc", 0,
                          << Document(issued + 1, user, status, now) >>)
    /\ UNCHANGED <<now, response, reports, sessions, applications_count>>

\* create_job from the $inc to its answer
CreateJobInc(i) ==
    /\ requests[i].handler = "create_job" /\ requests[i].pc = "inc"
    /\ applications_count' = IncApplications(applications_count, requests[i].user, 1)
    /\ requests' = Finish(i, 200)
    /\ response' = [handler |-> "create_job", code |-> 200,
                    body |-> requests[i].job[1], user |-> requests[i].user,
                    request |-> requests[i].job_id]
    /\ UNCHANGED <<jobs, now, reports, issued, sessions>>

\* delete_job up to the test of deleted_count
DeleteJobDelete(user, job_id) ==
    /\ Len(requests) < MaxRequests
    /\ LET r == delete_one(jobs, job_id, user)
       IN /\ jobs' = r.jobs
          /\ IF r.deleted_count = 0
             THEN /\ requests' = Arrive("delete_job", user, job_id, "done", 404, <<>>)
                  /\ response' = [handler |-> "delete_job", code |-> 404,
                                  body |-> <<>>, user |-> user, request |-> job_id]
             ELSE /\ requests' = Arrive("delete_job", user, job_id, "inc", 0, <<>>)
                  /\ UNCHANGED response
    /\ UNCHANGED <<now, reports, issued, sessions, applications_count>>

\* delete_job from the $inc to its answer
DeleteJobInc(i) ==
    /\ requests[i].handler = "delete_job" /\ requests[i].pc = "inc"
    /\ applications_count' = IncApplications(applications_count, requests[i].user, -1)
    /\ requests' = Finish(i, 200)
    /\ response' = [handler |-> "delete_job", code |-> 200,
                    body |-> <<>>, user |-> requests[i].user,
                    request |-> requests[i].job_id]
    /\ UNCHANGED <<jobs, now, reports, issued, sessions>>

\* update_job up to the end of its first find_one; the request keeps the
\* document it read and the status it was sent
UpdateJobFind(user, job_id, status) ==
    /\ Len(requests) < MaxRequests
    /\ LET job == find_one(jobs, Matching(jobs, job_id, user))
       IN IF job = <<>>
          THEN /\ requests' = Arrive("update_job", user, job_id, "done", 404, <<>>)
               /\ response' = [handler |-> "update_job", code |-> 404,
                               body |-> <<>>, user |-> user, request |-> job_id]
          ELSE /\ requests' = Append(requests,
                     [handler |-> "update_job", user |-> user, job_id |-> job_id,
                      pc |-> "set", code |-> 0, job |-> job, status |-> status])
               /\ UNCHANGED response
    /\ UNCHANGED <<jobs, now, reports, issued, sessions, applications_count>>

\* update_job from update_data to the end of update_one
UpdateJobSet(i) ==
    /\ requests[i].handler = "update_job" /\ requests[i].pc = "set"
    /\ jobs' = SetFields(jobs, requests[i].job_id, requests[i].user,
                         update_data(requests[i].job[1], requests[i].status, now))
    /\ requests' = [requests EXCEPT ![i].pc = "fetch"]
    /\ UNCHANGED <<now, response, reports, issued, sessions, applications_count>>

\* update_job from its second find_one to its answer; JobApplication(**None)
\* raises when the document is gone
UpdateJobFetch(i) ==
    /\ requests[i].handler = "update_job" /\ requests[i].pc = "fetch"
    /\ LET updated_job == find_one(jobs, MatchingId(jobs, requests[i].job_id))
       IN /\ requests' = Finish(i, IF updated_job = <<>> THEN 500 ELSE 200)
          /\ response' = [handler |-> "update_job",
                          code |-> IF updated_job = <<>> THEN 500 ELSE 200,
                          body |-> updated_job, user |-> requests[i].user,
                          request |-> requests[i].job_id]
    /\ UNCHANGED <<jobs, now, reports, issued, sessions, applications_count>>

NextJobs ==
    \/ \E user \in Users, status \in RequestStatuses \ {None} :
          CreateJobInsert(user, status)
    \/ \E i \in 1..Len(requests) : CreateJobInc(i)
    \/ \E user \in Users, job_id \in JobIds : DeleteJobDelete(user, job_id)
    \/ \E i \in 1..Len(requests) : DeleteJobInc(i)
    \/ \E user \in Users, job_id \in JobIds, status \in RequestStatuses :
          UpdateJobFind(user, job_id, status)
    \/ \E i \in 1..Len(requests) : UpdateJobSet(i)
    \/ \E i \in 1..Len(requests) : UpdateJobFetch(i)

SpecJobs == Init /\ [][NextJobs]_vars

(***************************************************************************)
(* Signing in, asking /auth/me, logging out, while time passes.            *)
(***************************************************************************)
\* str(uuid.uuid4()): the n-th token issued
TokenText(n) == ToString(n)

\* the sign-in of a user: a session under a fresh token, good for 7 days
SignIn(user) ==
    /\ issued < MaxSessions
    /\ issued' = issued + 1
    /\ sessions' = sessions \cup
                      {[user_id |-> user, session_token |-> TokenText(issued + 1),
                        expires_at |-> now + SessionDays * TicksPerDay]}
    /\ response' = [handler |-> "apple_auth", code |-> 200,
                    body |-> [session_token |-> TokenText(issued + 1), user_id |-> user]]
    /\ UNCHANGED <<jobs, now, reports, requests,
                 applications_count>>

GetMe(authorization) ==
    /\ LET r == get_current_user(sessions, authorization, now)
       IN response' = [handler |-> "get_me", code |-> r.code, body |-> r.user_id,
                       authorization |-> authorization]
    /\ UNCHANGED <<jobs, now, reports, issued, sessions, requests,
                 applications_count>>

Logout(authorization) ==
    /\ sessions' = logout(sessions, authorization)
    /\ response' = [handler |-> "logout", code |-> 200, body |-> <<>>,
                    authorization |-> authorization]
    /\ UNCHANGED <<jobs, now, reports, issued, requests,
                 applications_count>>

\* the clock moves on, by a day or by the life of a session
Tick(days) ==
    /\ now + days * TicksPerDay <= At(Today + MaxAuthDays, Noon)
    /\ now' = now + days * TicksPerDay
    /\ response' = NoResponse
    /\ UNCHANGED <<jobs, reports, issued, sessions, requests,
                 applications_count>>

\* the tokens a client may present: every token that is ever issued, the
\* test token, a text that is no token
Tokens == {TokenText(n) : n \in 1..MaxSessions} \cup {TestToken, "nope"}

Headers ==
    {NoHeader, Header(<<>>), Header(<<Bearer>>)}
        \cup {Header(<<token>>) : token \in Tokens}
        \cup {Header(<<Bearer, token>>) : token \in Tokens}

NextAuth ==
    \/ \E user \in Users : SignIn(user)
    \/ \E authorization \in Headers : GetMe(authorization)
    \/ \E authorization \in Headers : Logout(authorization)
    \/ \E days \in {1, SessionDays} : Tick(days)

SpecAuth == Init /\ [][NextAuth]_vars

(***************************************************************************)
(* Properties.                                                             *)
(***************************************************************************)
IsInsights == response.handler = "get_ai_insights"

Answered == response.code = 200

\* the insights of the current jobs before the sort and the cut
Fired == RuleInsights(ProcessJobs(InitTables, jobs, now), Len(jobs), 1, 1)

\* C1: whatever the job list, the engine answers with at most 8 insights and
\* at most 4 follow-ups.
CapInvariant ==
    IsInsights =>
        /\ Len(response.body.insights) <= 8
        /\ Len(response.body.follow_ups) <= 4

\* more than 8 rules fired and 8 insights were returned
CapWitness ==
    /\ IsInsights /\ Answered
    /\ Len(Fired) > 8
    /\ Len(response.body.insights) = 8

\* C2: the engine answers every job list with a non-empty insights list and
\* a non-empty follow_ups list, and the empty job list with exactly the
\* default insight and the summary placeholder.
NonEmptyGuarantee ==
    IsInsights =>
        /\ Answered
        /\ response.body.insights # <<>>
        /\ response.body.follow_ups # <<>>
        /\ jobs = <<>> =>
              /\ response.body.insights = << DefaultInsight >>
              /\ response.body.follow_ups = << SummaryReminder >>

\* the priority that the rules give to each type of insight
RulePriority(type) ==
    CASE type = "urgent" -> 0
      [] type = "celebration" -> 1
      [] type = "pattern" -> 2
      [] type = "momentum" -> 3
      [] type = "coaching" -> 4
      [] type = "reflection" -> 5
      [] type = "encouragement" -> 6
      [] type = "ghosted" -> 7
      [] OTHER -> 99

PositionsOf(ins, type) == {i \in 1..Len(ins) : ins[i].type = type}

\* C3: the returned insights are in non-decreasing order of rule priority,
\* whatever the order of the jobs; the insight about today's interview comes
\* before the one about the offer.
PriorityOrder ==
    IsInsights =>
        LET ins == response.body.insights
        IN /\ \A i, j \in 1..Len(ins) :
                i < j => RulePriority(ins[i].type) <= RulePriority(ins[j].type)
           /\ \A u \in PositionsOf(ins, "urgent"), c \in PositionsOf(ins, "celebration") :
                u < c

\* the offer was stored before the application with the interview today, and
\* both insights were returned
PriorityOrderWitness ==
    /\ IsInsights /\ Answered
    /\ \E i, j \in 1..Len(jobs) :
          /\ i < j
          /\ jobs[i].status = "offer"
          /\ jobs[j].upcoming_schedule = <<"3", "/", "5", "/", "2", "4">>
    /\ PositionsOf(response.body.insights, "urgent") # {}
    /\ PositionsOf(response.body.insights, "celebration") # {}

\* the application of the one-job specifications
OnlyJob == jobs[1]

\* the first follow-up reminder of the answer, when it is about a job
FirstReminder == response.body.follow_ups[1]

HasReminder == IsInsights /\ Answered /\ ~ FirstReminder.summary

WeekdaysIn(first, last) == Cardinality({d \in first..last : Weekday(d) < 5})

\* the index that random.choice returned for the insight of a type, 0 when
\* the answer has no such insight
ChoiceOf(resp, type) ==
    LET at == PositionsOf(resp.body.insights, type)
    IN IF at = {} THEN 0 ELSE resp.body.insights[CHOOSE i \in at : TRUE].choice

SameChoices(a, b) ==
    /\ ChoiceOf(a, "reflection") = ChoiceOf(b, "reflection")
    /\ ChoiceOf(a, "encouragement") = ChoiceOf(b, "encouragement")

IsReport(report_type) ==
    /\ response.handler = "generate_report"
    /\ Answered
    /\ response.body.report_type = report_type

\* the report that the last request stored
LastReport == reports[Len(reports)]

\* the jobs whose date_applied is a readable date in [now - 7 days, now]
InWeeklyWindow ==
    SelectSeq(jobs, LAMBDA j :
        /\ j.date_applied.kind \in {"datetime", "iso"}
        /\ now - 7 * TicksPerDay <= j.date_applied.t
        /\ j.date_applied.t <= now)

\* C6: the weekly report counts, in weekly_applications and in status_counts,
\* exactly the jobs whose date_applied lies in [now - 7 days, now].
WeeklyWindowExact ==
    IsReport("weekly") =>
        /\ LastReport.stats.weekly_applications = Len(InWeeklyWindow)
        /\ SumSeq([i \in 1..Len(LastReport.stats.status_counts) |->
                      LastReport.stats.status_counts[i].count]) = Len(InWeeklyWindow)

Responded == Len(SelectSeq(jobs, LAMBDA j : j.status # "applied"))

IsMonthly ==
    \/ IsReport("monthly")
    \/ response.handler = "get_monthly_email_summary" /\ Answered

\* the response rate of the last monthly answer, in tenths of a percent
AnsweredRate ==
    IF response.handler = "generate_report" THEN LastReport.stats.response_rate
    ELSE response.body.response_rate

\* C7: the monthly response rate is 100 * (jobs not in status applied) /
\* (all jobs), and 0 with no error when there are no jobs.
ResponseRateExact ==
    /\ response.handler \in {"generate_report", "get_monthly_email_summary"}
          => Answered
    /\ IsMonthly =>
          IF Len(jobs) = 0 THEN AnsweredRate = 0
          ELSE AnsweredRate * Len(jobs) = 1000 * Responded

\* C7, amended: the monthly response rate is 100 * (jobs not in status
\* applied) / (all jobs) rounded to one decimal place (60.0 for 10 jobs of
\* which 4 are in status applied), and 0 with no error when there are no
\* jobs.
ResponseRateRounded ==
    /\ response.handler \in {"generate_report", "get_monthly_email_summary"}
          => Answered
    /\ IsMonthly =>
          LET exact == 1000 * Responded
              got == AnsweredRate * Len(jobs)
          IN /\ Len(jobs) = 0 => AnsweredRate = 0
             /\ Len(jobs) # 0 =>
                   /\ 2 * (got - exact) <= Len(jobs)
                   /\ 2 * (exact - got) <= Len(jobs)
             /\ (Len(jobs) = 10 /\ Responded = 6) => AnsweredRate = 600

\* the monthly report of 10 jobs, 4 of them in status applied, says 60.0
ResponseRateWitness ==
    /\ IsReport("monthly")
    /\ Len(jobs) = 10
    /\ Responded = 6
    /\ LastReport.stats.response_rate = 600

\* three applications, none a priority, all in status applied and 25
\* business days old
ThreeStale ==
    /\ Len(jobs) = 3
    /\ \A i \in 1..3 :
          /\ jobs[i].status = "applied"
          /\ ~ jobs[i].is_priority
          /\ jobs[i].date_applied.kind = "datetime"
          /\ WeekdaysIn(DateOf(jobs[i].date_applied.t), DateOf(now) - 1) = 25

\* C8: for three non-priority applications in status applied that are 25
\* business days old, the engine classifies at least one as critical and
\* returns an insight or a follow-up about their staleness.
StaleApplicationsFlagged ==
    (IsInsights /\ ThreeStale) =>
        /\ Answered
        /\ \E i \in 1..Len(response.body.follow_ups) :
              response.body.follow_ups[i].urgency = "critical"
        /\ \/ \E i \in 1..Len(response.body.follow_ups) :
                 ~ response.body.follow_ups[i].summary
           \/ \E i \in 1..Len(response.body.insights) :
                 response.body.insights[i].type \in {"aging", "stale"}

\* the schedule string of the one application, its separators and its parts
Schedule == OnlyJob.upcoming_schedule

Separators == {i \in 1..Len(Schedule) : Schedule[i] \in {"/", "-"}}

FirstSep == CHOOSE i \in Separators : \A j \in Separators : i <= j

LastSep == CHOOSE i \in Separators : \A j \in Separators : j <= i

\* the decimal value of the digits of the schedule string from a to b
RECURSIVE Decimal(_, _)
Decimal(a, b) ==
    IF b < a THEN 0 ELSE 10 * Decimal(a, b - 1) + DigitVal(Schedule[b])

\* three non-empty runs of digits with one separator between them
ThreeNumbers ==
    /\ Cardinality(Separators) = 2
    /\ 1 < FirstSep /\ FirstSep + 1 < LastSep /\ LastSep < Len(Schedule)
    /\ \A i \in (1..Len(Schedule)) \ Separators : IsDigit(Schedule[i])

WrittenMonth == Decimal(1, FirstSep - 1)

WrittenDay == Decimal(FirstSep + 1, LastSep - 1)

WrittenYear ==
    LET y == Decimal(LastSep + 1, Len(Schedule))
    IN IF y < 100 THEN 2000 + y ELSE y

\* the string is a date of the calendar that is not before today
ReadsAsDate ==
    /\ ThreeNumbers
    /\ WrittenMonth \in 1..12
    /\ WrittenYear \in 1..9999
    /\ WrittenDay \in 1..DaysInMonth(WrittenYear, WrittenMonth)
    /\ ToOrdinal(WrittenYear, WrittenMonth, WrittenDay) >= DateOf(now)

NoNaiveDate ==
    \A i \in 1..Len(jobs) :
        jobs[i].date_applied.kind # "iso_naive" /\ jobs[i].created_at.kind # "iso_naive"

\* C10: a job whose date_applied or created_at is a malformed date string
\* makes no handler raise, and the job is still counted by its status.
MalformedDatesTolerated ==
    NoNaiveDate =>
        /\ response.code # 500
        /\ (response.handler = "get_dashboard_stats" /\ Answered) =>
              Len(jobs) =
                 response.body.stage["applied"] + response.body.stage["phone_screen"]
                 + response.body.stage["offer"]

IsStats == response.handler = "get_dashboard_stats"

InMapping(state) == \E i \in 1..Len(state_abbr) : state_abbr[i].name = state

MappedAbbr(state) ==
    state_abbr[CHOOSE i \in 1..Len(state_abbr) : state_abbr[i].name = state].abbr

\* the key of a job whose abbreviation is abbr(state)
KeyWith(abbr(_), job) ==
    LET city == IF job.location.city = <<>> THEN Unknown ELSE job.location.city[1]
        state == IF job.location.state = <<>> THEN Unknown ELSE job.location.state[1]
    IN city \o <<",", " ">> \o abbr(state)

\* by_location counts every job under the key made with abbr, and nothing else
TalliedBy(abbr(_)) ==
    /\ \A i \in 1..Len(jobs) :
          DictGet(response.body.by_location, KeyWith(abbr, jobs[i])) =
             Cardinality({k \in 1..Len(jobs) :
                             KeyWith(abbr, jobs[k]) = KeyWith(abbr, jobs[i])})
    /\ SumSeq([i \in 1..Len(response.body.by_location) |->
                  response.body.by_location[i].count]) = Len(jobs)

\* the two-letter abbreviation of a state of the mapping, else the first two
\* characters uppercased
CutAlways(state) ==
    IF InMapping(state) THEN MappedAbbr(state) ELSE Upper(Take(state, 2))

\* the same, except that a state of fewer than two characters is kept as is
CutFromTwo(state) ==
    IF InMapping(state) THEN MappedAbbr(state)
    ELSE IF Len(state) < 2 THEN state ELSE Upper(Take(state, 2))

\* C11: the stats key each job's location as "<city>, <abbr>", abbr the
\* two-letter abbreviation of a US state name and else the first two
\* characters of the state uppercased, a missing city or state being
\* "Unknown".
LocationKeyCut ==
    (IsStats /\ Answered) => TalliedBy(CutAlways)

\* C11, amended: as above, except that a state that is no US state name and
\* has fewer than two characters is used as it is, not uppercased ("x" stays
\* "x"); Springfield, Illinois gives "Springfield, IL" and X, Freedonia
\* gives "X, FR".
LocationKey ==
    (IsStats /\ Answered) =>
        /\ TalliedBy(CutFromTwo)
        /\ \A i \in 1..Len(jobs) :
              /\ jobs[i].company_name = "Abe" =>
                    DictHas(response.body.by_location,
                            Springfield \o <<",", " ", "I", "L">>)
              /\ jobs[i].company_name = "Marx" =>
                    DictHas(response.body.by_location, <<"X", ",", " ", "F", "R">>)

\* the stats of a user with the application in Springfield, Illinois, the
\* one in Freedonia and the one in state "x"
LocationKeyWitness ==
    /\ IsStats /\ Answered
    /\ {"Abe", "Marx", "Zed"} = {jobs[i].company_name : i \in 1..Len(jobs)}
    /\ DictGet(response.body.by_location, Springfield \o <<",", " ", "I", "L">>) = 1
    /\ DictGet(response.body.by_location, <<"Z", ",", " ", "x">>) = 1

WithStatus(status) == Cardinality({i \in 1..Len(jobs) : jobs[i].status = status})

\* C12: a job whose status is no named stage adds exactly 1 to total, changes
\* no stage count and no other field of the stats, and causes no error.
UnknownStatusTolerated ==
    IsStats =>
        /\ Answered
        /\ response.body.total = Len(jobs)
        /\ \A st \in StatStages : response.body.stage[st] = WithStatus(st)
        /\ \A m \in WorkModes :
              response.body.by_work_mode[m] =
                 Cardinality({i \in 1..Len(jobs) : Lower(jobs[i].work_mode) = m})

\* C13: the stats carry, for each of the 12 stages, the number of jobs with
\* that status; a ghosted job is counted under "ghosted".
StageCounts ==
    (IsStats /\ Answered) =>
        \A i \in 1..Len(all_stages) :
            /\ all_stages[i] \in DOMAIN response.body.stage
            /\ response.body.stage[all_stages[i]] = WithStatus(all_stages[i])

\* the answer is that of a get_report_detail which found report
DetailOf(answer, report) ==
    /\ answer.handler = "get_report_detail"
    /\ answer.code = 200
    /\ answer.user = report.user_id
    /\ answer.request.form \in {"oid", "uuid"}
    /\ answer.request.n = report.report_id

StoredIds(rs) == {rs[i].report_id : i \in 1..Len(rs)}

\* C14: over generate_report, get_reports, get_report_detail and
\* delete_report, a report is stored unread; it stays unread in every step
\* that is not a successful get_report_detail of its owner for it; such a
\* step leaves it read; a read report is never unread again; and as long as
\* the report is stored no other field of it changes.
ReadOnce ==
    [][ /\ \A i \in 1..Len(reports), k \in 1..Len(reports') :
              reports[i].report_id = reports'[k].report_id =>
                 /\ [reports'[k] EXCEPT !.is_read = reports[i].is_read] = reports[i]
                 /\ reports[i].is_read => reports'[k].is_read
                 /\ reports'[k].is_read /\ ~ reports[i].is_read
                       => DetailOf(response', reports[i])
                 /\ DetailOf(response', reports[i]) => reports'[k].is_read
        /\ \A k \in 1..Len(reports') :
              reports'[k].report_id \notin StoredIds(reports) => ~ reports'[k].is_read
      ]_vars

\* a report was read by its owner, who has another report still unread
ReadOnceWitness ==
    /\ response.handler = "get_report_detail"
    /\ response.code = 200
    /\ response.request.form = "uuid"
    /\ \E i, k \in 1..Len(reports) :
          /\ reports[i].is_read
          /\ DetailOf(response, reports[i])
          /\ ~ reports[k].is_read
          /\ reports[k].user_id = reports[i].user_id

\* the reports of rs that a user's request for report_id names
Named(rs, user, report_id) ==
    {i \in 1..Len(rs) : /\ rs[i].user_id = user
                        /\ report_id.form \in {"oid", "uuid"}
                        /\ rs[i].report_id = report_id.n}

\* C15: a get_report_detail or delete_report whose report_id names no
\* stored report of the caller (none at all, or another user's) answers 404
\* and leaves every stored report as it was, is_read included; get_reports
\* lists reports of the caller only.
ForeignReportsUntouched ==
    [][ /\ ( /\ response'.handler \in {"get_report_detail", "delete_report"}
             /\ Named(reports, response'.user, response'.request) = {} )
           => (response'.code = 404 /\ reports' = reports)
        /\ response'.handler = "get_reports" =>
              \A p \in 1..Len(response'.body) :
                 \E i \in 1..Len(reports) :
                    /\ ShownId(reports[i]) = response'.body[p].report_id
                    /\ reports[i].user_id = response'.user
      ]_vars

\* a user was refused an unread report of another user, which is still
\* stored and unread
ForeignReportsWitness ==
    /\ response.handler \in {"get_report_detail", "delete_report"}
    /\ response.code = 404
    /\ \E i \in 1..Len(reports) :
          /\ reports[i].user_id # response.user
          /\ response.request.form \in {"oid", "uuid"}
          /\ response.request.n = reports[i].report_id
          /\ ~ reports[i].is_read

\* C16: every stored report has the report_type "weekly" or "monthly",
\* whatever report_type generate_report was called with.
ReportTypeNormalised ==
    \A i \in 1..Len(reports) : reports[i].report_type \in {"weekly", "monthly"}

IsMe == response.handler = "get_me"

\* the header presents the token, bare or after "Bearer "
Presents(authorization, token) ==
    authorization = Header(<<token>>) \/ authorization = Header(<<Bearer, token>>)

\* the sessions that the presented token has and that have not expired
LiveSessions ==
    {session \in sessions : /\ Presents(response.authorization, session.session_token)
                            /\ session.expires_at >= now}

\* C17: get_current_user authenticates exactly the requests whose token has
\* a stored session that has not expired, as that session's user; every
\* other request (no header, unknown token, expired session, logged-out
\* token) is answered 401.
SessionRequired ==
    IsMe =>
        IF LiveSessions = {} THEN response.code = 401
        ELSE /\ response.code = 200
             /\ \E session \in LiveSessions : response.body = session.user_id

\* a report of the type is stored and the summary of that type was asked
\* for, over the same applications at the same time
Compared(report_type, handler) ==
    /\ reports # <<>>
    /\ LastReport.report_type = report_type
    /\ response.handler = handler

\* C18: over the same applications and the same now, the weekly summary
\* and the weekly report have the same weekly_applications, status_counts
\* and follow-up count, and the monthly summary and the monthly report have
\* the same status_counts, work_mode_counts, response_rate and displayed
\* follow-up count.
SummaryAgreesWithReport ==
    /\ Compared("weekly", "get_weekly_email_summary") =>
          /\ response.code = 200
          /\ response.body.weekly_applications = LastReport.stats.weekly_applications
          /\ response.body.status_counts = LastReport.stats.status_counts
          /\ response.body.follow_ups_count = LastReport.stats.follow_ups_count
    /\ Compared("monthly", "get_monthly_email_summary") =>
          /\ response.code = 200
          /\ response.body.status_counts = LastReport.stats.status_counts
          /\ response.body.work_mode_counts = LastReport.stats.work_mode_counts
          /\ response.body.response_rate = LastReport.stats.response_rate
          /\ response.body.follow_ups_count = LastReport.content.follow_ups

\* the list of interviews in the answer of either handler
Listed ==
    IF IsInsights THEN response.body.upcoming_interviews ELSE response.body

\* the stored jobs an item of the list can stand for: a non-empty
\* upcoming_stage, a schedule that reads as a date, that many days from today
StandsFor(item) ==
    {i \in 1..Len(jobs) :
        /\ jobs[i].upcoming_stage \notin {None, ""}
        /\ jobs[i].upcoming_stage = item.stage
        /\ ParseSchedule(jobs[i].upcoming_schedule).outcome = "date"
        /\ DateOrdinal(ParseSchedule(jobs[i].upcoming_schedule).date) - DateOf(now)
              = item.days_until}

\* C19: the list of get_upcoming_interviews and the upcoming_interviews of
\* get_ai_insights hold only jobs with a non-empty upcoming_stage and a
\* readable upcoming_schedule of today or later, in non-decreasing order of
\* days_until.
UpcomingListed ==
    (response.handler \in {"get_upcoming_interviews", "get_ai_insights"} /\ Answered) =>
        /\ \A p \in 1..Len(Listed) :
              Listed[p].days_until >= 0 /\ StandsFor(Listed[p]) # {}
        /\ \A p, q \in 1..Len(Listed) :
              p < q => Listed[p].days_until <= Listed[q].days_until

\* days_since(date_applied): the whole days from date_applied to now
AgeOf(job) == DaysBetween(now, job.date_applied.t)

\* the jobs due for a follow-up: follow_up_days set, status not terminal,
\* age at least follow_up_days
DueJobs ==
    {i \in 1..Len(jobs) :
        /\ jobs[i].follow_up_days # <<>>
        /\ jobs[i].status \notin {"offer", "rejected", "ghosted"}
        /\ AgeOf(jobs[i]) >= jobs[i].follow_up_days[1]}

\* the company and overdue_days of every reminder in the answer
Reminded ==
    {<<response.body.follow_ups[p].company, response.body.follow_ups[p].overdue_days>> :
        p \in {q \in 1..Len(response.body.follow_ups) :
                  ~ response.body.follow_ups[q].summary}}

\* C20: a job is a follow-up candidate of get_ai_insights exactly when its
\* follow_up_days is set, its status is none of offer, rejected, ghosted and
\* its age in days is at least follow_up_days; its overdue_days is the age
\* less follow_up_days, never negative.  (At most four candidates, so that
\* the answer shows them all.)
FollowUpCandidates ==
    (IsInsights /\ Answered /\ Cardinality(DueJobs) <= 4) =>
        /\ Reminded = {<<jobs[i].company_name, AgeOf(jobs[i]) - jobs[i].follow_up_days[1]>> :
                          i \in DueJobs}
        /\ \A r \in Reminded : r[2] >= 0

\* the reminders of the answer, the placeholder left out
ShownReminders == SelectSeq(response.body.follow_ups, LAMBDA r : ~ r.summary)

\* the urgency rank of a job: 0 critical, 1 high, 2 medium
RankOfJob(job) ==
    IF job.is_priority THEN 0
    ELSE IF job.status \in {"applied", "recruiter_screening"} THEN 1 ELSE 2

OverdueOf(job) == AgeOf(job) - job.follow_up_days[1]

\* (rank a, overdue a) comes strictly before (rank b, overdue b)
StrictlyBefore(ra, oa, rb, ob) == ra < rb \/ (ra = rb /\ oa > ob)

\* the due job a reminder stands for
JobOf(reminder) ==
    {i \in DueJobs : /\ jobs[i].company_name = reminder.company
                     /\ OverdueOf(jobs[i]) = reminder.overdue_days
                     /\ RankOfJob(jobs[i]) = UrgencyRank(reminder.urgency)}

\* C21: the follow_ups of get_ai_insights are 4 of the due follow-ups (all
\* of them when there are fewer), in the order of urgency rank and then of
\* overdue_days descending, and no due job left out ranks strictly before a
\* returned one.
FollowUpOrder ==
    (IsInsights /\ Answered) =>
        /\ Len(ShownReminders) =
              (IF Cardinality(DueJobs) < 4 THEN Cardinality(DueJobs) ELSE 4)
        /\ \A p \in 1..Len(ShownReminders) : JobOf(ShownReminders[p]) # {}
        /\ \A p, q \in 1..Len(ShownReminders) :
              p < q => ~ StrictlyBefore(UrgencyRank(ShownReminders[q].urgency),
                                        ShownReminders[q].overdue_days,
                                        UrgencyRank(ShownReminders[p].urgency),
                                        ShownReminders[p].overdue_days)
        /\ \A i \in DueJobs, p \in 1..Len(ShownReminders) :
              (\A q \in 1..Len(ShownReminders) : i \notin JobOf(ShownReminders[q]))
                 => ~ StrictlyBefore(RankOfJob(jobs[i]), OverdueOf(jobs[i]),
                                     UrgencyRank(ShownReminders[p].urgency),
                                     ShownReminders[p].overdue_days)

\* five follow-ups are due, stored with the least urgent first, and four
\* are shown
FollowUpOrderWitness ==
    /\ IsInsights /\ Answered
    /\ Cardinality(DueJobs) = 5
    /\ Len(ShownReminders) = 4
    /\ jobs[1].company_name = "Med6"
    /\ ShownReminders[1].urgency = "critical"
    /\ ShownReminders[4].urgency # "critical"

\* the tables get_ai_insights has built when its loop over the jobs ends
Tables == ProcessJobs(InitTables, Take(jobs, 1000), now)

\* the jobs whose status is at stage_order 3 or later and comes after the
\* k-th stage
PastStage(k) ==
    {i \in 1..Len(jobs) : /\ stage_order(jobs[i].status) >= 3
                          /\ stage_order(jobs[i].status) > k - 1}

\* C22: when get_ai_insights has processed the jobs, stage_success_count
\* gives every stage the number of jobs whose status has stage_order >= 3
\* and comes after that stage; jobs with stage_order < 3 add nothing.
StageSuccessCount ==
    (IsInsights /\ Answered) =>
        LET ssc == Tables.stage_success_count
        IN \A k \in 1..Len(all_stages) :
              DictGet(ssc, all_stages[k]) = Cardinality(PastStage(k))

\* the days of the current calendar week, Monday to Sunday
ThisWeek == (DateOf(now) - Weekday(DateOf(now)))..(DateOf(now) - Weekday(DateOf(now)) + 6)

AppliedThisWeek ==
    {i \in 1..Len(jobs) : DateOf(jobs[i].date_applied.t) \in ThisWeek}

\* the upcoming interviews (today or later) scheduled within the week
InterviewsThisWeek ==
    {i \in 1..Len(jobs) :
        /\ Truthy(jobs[i].upcoming_stage)
        /\ ParseSchedule(jobs[i].upcoming_schedule).outcome = "date"
        /\ DateOrdinal(ParseSchedule(jobs[i].upcoming_schedule).date) >= DateOf(now)
        /\ DateOrdinal(ParseSchedule(jobs[i].upcoming_schedule).date) \in ThisWeek}

HasInsight(type) ==
    \E p \in 1..Len(response.body.insights) : response.body.insights[p].type = type

\* C23: the weekly-momentum insight is in the answer exactly when a job was
\* applied for in the current calendar week (from Monday) or an upcoming
\* interview is scheduled within that week.
WeeklyMomentum ==
    (IsInsights /\ Answered) =>
        (HasInsight("momentum") <=> (AppliedThisWeek # {} \/ InterviewsThisWeek # {}))

\* the coaching insights of the answer, in its order
ShownCoaching == SelectSeq(response.body.insights, LAMBDA x : x.type = "coaching")

CompanyOf(insight) == insight.names[1]

TipsOf(insight) == SubSeq(insight.names, 3, Len(insight.names))

JobsAt(company) == {i \in 1..Len(jobs) : jobs[i].company_name = company}

\* the highest stage_order among the applications of the company
HighestStage(company) ==
    CHOOSE h \in {stage_order(jobs[i].status) : i \in JobsAt(company)} :
        \A i \in JobsAt(company) : stage_order(jobs[i].status) <= h

\* the stage whose tip a job contributes: upcoming_stage when present,
\* otherwise status
TipStage(job) ==
    IF job.upcoming_stage \notin {None, ""} THEN job.upcoming_stage ELSE job.status

\* C24: at most 3 coaching insights, each for a company with a priority job
\* and at least one tip, in descending order of the highest stage_order
\* among the company's jobs, each with at most 2 tips; every tip comes from
\* a priority job of the company, by its upcoming_stage when present,
\* otherwise by its status.
CoachingInsights ==
    (IsInsights /\ Answered) =>
        /\ Len(ShownCoaching) <= 3
        /\ \A p \in 1..Len(ShownCoaching) :
              /\ Len(TipsOf(ShownCoaching[p])) \in 1..2
              /\ \A t \in 1..Len(TipsOf(ShownCoaching[p])) :
                    \E i \in JobsAt(CompanyOf(ShownCoaching[p])) :
                       /\ jobs[i].is_priority
                       /\ TipStage(jobs[i]) = TipsOf(ShownCoaching[p])[t]
        /\ \A p, q \in 1..Len(ShownCoaching) :
              p < q => HighestStage(CompanyOf(ShownCoaching[p]))
                          >= HighestStage(CompanyOf(ShownCoaching[q]))

\* C25: the total of get_dashboard_stats is the number of job records
\* fetched for the user, whatever statuses those jobs carry.
TotalIsJobCount ==
    IsStats => (Answered /\ response.body.total = Len(Take(jobs, 1000)))

\* C26: whenever a job of the user is ghosted, the insights of
\* get_ai_insights contain the ghosted acknowledgment, whatever else the
\* jobs produce.
GhostedAcknowledged ==
    (IsInsights /\ Answered /\ \E i \in 1..Len(jobs) : jobs[i].status = "ghosted")
        => HasInsight("ghosted")

\* C27: in every run of get_ai_insights, "applied" is the first key of
\* stage_success_count and no stage has a larger count, so the stage-pattern
\* insight, whenever it is in the answer, names the stage "Applied".
PatternNamesApplied ==
    (IsInsights /\ Answered) =>
        /\ LET ssc == Tables.stage_success_count
           IN ssc # <<>> =>
                 /\ ssc[1].key = "applied"
                 /\ \A k \in 1..Len(ssc) : ssc[k].count <= ssc[1].count
        /\ \A p \in 1..Len(response.body.insights) :
              response.body.insights[p].type = "pattern" =>
                 response.body.insights[p].names = << "Applied" >>

\* the pattern insight was emitted when other stages have the same count as
\* "applied" and others a smaller one
PatternNamesAppliedWitness ==
    /\ IsInsights /\ Answered
    /\ HasInsight("pattern")
    /\ LET ssc == Tables.stage_success_count
       IN /\ \E k \in 2..Len(ssc) : ssc[k].count = ssc[1].count
          /\ \E k \in 2..Len(ssc) : ssc[k].count < ssc[1].count

\* no request is between two of its steps
Quiescent == \A i \in 1..Len(requests) : requests[i].pc = "done"

\* the number of stored job applications of a user
StoredOf(js, user) == Cardinality({ i \in 1..Len(js) : js[i].user_id = user })

\* a delete_job request arrives in this step and finds no document
DeleteFindsNothing ==
    /\ Len(requests') = Len(requests) + 1
    /\ requests'[Len(requests')].handler = "delete_job"
    /\ Matching(jobs, requests'[Len(requests')].job_id,
                requests'[Len(requests')].user) = {}

\* C28: whenever a step of create_job or delete_job leaves no request in
\* flight, every user's applications_count is the number of that user's
\* stored job applications; and a delete_job that finds no matching job is
\* answered 404 at once and leaves the counts and the collection as they
\* were, also when another delete of the same job is still in flight.
CountFollowsJobs ==
    [][ /\ Quiescent' =>
             \A user \in Users : applications_count'[user] = StoredOf(jobs', user)
        /\ DeleteFindsNothing =>
             /\ requests'[Len(requests')].pc = "done"
             /\ requests'[Len(requests')].code = 404
             /\ response'.handler = "delete_job" /\ response'.code = 404
             /\ applications_count' = applications_count
             /\ jobs' = jobs ]_vars

\* two deletes of one job of CurrentUser have raced: the second to arrive
\* was answered 404 before the first had decremented the count, the first
\* has just been answered 200 and nothing is in flight
CountFollowsJobsWitness ==
    /\ Quiescent
    /\ response.handler = "delete_job" /\ response.code = 200
    /\ \E i, k \in 1..Len(requests) :
          /\ i < k
          /\ requests[i].handler = "delete_job" /\ requests[i].code = 200
          /\ requests[k].handler = "delete_job" /\ requests[k].code = 404
          /\ requests[i].job_id = response.request
          /\ requests[k].job_id = response.request
          /\ requests[i].user = CurrentUser /\ requests[k].user = CurrentUser
    /\ applications_count[CurrentUser] = StoredOf(jobs, CurrentUser)

\* s is the beginning of t
IsPrefix(s, t) == Len(s) <= Len(t) /\ SubSeq(t, 1, Len(s)) = s

\* C29: after every step of update_job, every stored job's stages history
\* ends with an entry of the job's current status, and the history the job
\* had before the step is still the beginning of its history: no entry is
\* lost, and entries stay in the order of the status changes.
StagesFollowStatus ==
    [][ \A i \in 1..Len(jobs') :
           /\ jobs'[i].stages[Len(jobs'[i].stages)].status = jobs'[i].status
           /\ \A k \in 1..Len(jobs) :
                 jobs[k].job_id = jobs'[i].job_id =>
                    IsPrefix(jobs[k].stages, jobs'[i].stages) ]_vars

\* the rows get_reports can show the user for the stored report numbered n
RowsOf(user, n) ==
    { ShownId(reports[i]) : i \in { k \in 1..Len(reports) :
                                      /\ reports[k].user_id = user
                                      /\ reports[k].report_id = n } }

\* the answer is that of a get_report_detail called with the report_id that
\* generate_report returned to the same user for a report still stored
DetailOfReturnedId ==
    /\ response.handler = "get_report_detail"
    /\ response.request.form = "uuid"
    /\ \E i \in 1..Len(reports) : /\ reports[i].user_id = response.user
                                  /\ reports[i].report_id = response.request.n

\* C30: a get_report_detail called with the report_id generate_report
\* returned, by the same user, answers with that report, the report_id of
\* the answer is the id passed in, and get_reports shows that report under
\* the same id.
ReportIdRoundTrip ==
    DetailOfReturnedId =>
       /\ response.code = 200
       /\ \E i \in 1..Len(reports) :
             /\ reports[i].report_id = response.request.n
             /\ reports[i].content = response.body.content
       /\ response.body.report_id = response.request
       /\ RowsOf(response.user, response.request.n) = {response.request}
====
